---- MODULE Spec2Model ----
(***************************************************************************)
(* Orbital: the simulation core (registry, gravity, integration,           *)
(* collisions, sun absorption, ejection, reset) as a state machine.        *)
(*                                                                         *)
(* Numbers.  The program computes in double precision; the model computes  *)
(* in fixed point on integers that fit 31 bits:                            *)
(*   mass      unit = SPARK_MASS (PLAYER_INITIAL_MASS = 100000 units)      *)
(*   length    world units for positions, tenths of a unit for radii       *)
(*   velocity  world units per second                                      *)
(*   time      milliseconds (Date.now, performance.now, dt)                *)
(*   gameDt    units of 0.1 ms (dt in ms times the speed in tenths)        *)
(*   gravityBlendFactor, sunAbsorptionProgress: 1.0 = One                  *)
(***************************************************************************)
EXTENDS Integers, Sequences, FiniteSets, TLC

\* ------------------------------------------------------------------ bounds
MaxTicks == 2
MaxEjects == 2
\* the bodies populateSystem adds to a session (400 in the program)
INIT_NUM_BODIES == 2
\* the ticks of a quiet period after the last click
MaxDecayTicks == 80
\* the ticks of a session in which sparks fly
MaxSparkTicks == 5
MaxAbsorbTicks == 90

\* --------------------------------------------------------------- constants
PLAYER_INITIAL_MASS == 100000
MIN_PLAYER_MASS == PLAYER_INITIAL_MASS \div 10
SUN_GAME_MASS == PLAYER_INITIAL_MASS * 180
MIN_BODY_MASS == (PLAYER_INITIAL_MASS * 5) \div 1000
SPARK_MASS == PLAYER_INITIAL_MASS \div 100000
\* G * SUN_GRAVITATIONAL_MASS = 6.67430e-12 * 1e20
G_SUN_GRAVITATIONAL_MASS == 667430000
One == SUN_GAME_MASS
SUN_DISPLAY_RADIUS == 120
QUICK_CLICK_THRESHOLD == 260
MAX_EJECTION_MULTIPLIER == 85
EJECTION_GROWTH_RATE == 3
EJECTION_BASE_SPEED == 1200
EJECTION_PROPULSION_MULTIPLIER == 45
EJECTION_DECAY_INTERVAL == 300
EJECTION_COLLISION_DELAY == 300
MASS_TRANSFER_PERCENT_PER_SEC == 4
SPARK_LIFESPAN == 1600
MIN_SPARKS == 2
MAX_SPARKS == 20
MAX_V == 15000
BASE_GAME_SPEED == 1
FAST_GAME_SPEED == 10
MaxDt == 100
BASE_EJECTION_MASS_PERCENT == 5
EJECTION_DECAY_RATE == 97
CanvasMin == 1000
StartTime == 10000
SUN_ABSORPTION_START_RATIO == 4
SUN_ABSORPTION_RANGE_MULTIPLIER == 25
SUN_ABSORPTION_RATE == 15
WIN_PERCENT == 2
NaN == -1
MaxInt == 2147483647

\* ----------------------------------------------------------------- helpers
Min(a, b) == IF a <= b THEN a ELSE b
Max(a, b) == IF a >= b THEN a ELSE b
Abs(a) == IF a >= 0 THEN a ELSE -a
Clamp(v, lo, hi) == Min(hi, Max(lo, v))

\* a / b rounded toward zero (the model's division of signed reals)
Quot(a, b) == IF a >= 0 THEN a \div b ELSE -((-a) \div b)

\* a * b / c for a, b >= 0 and c > 0, with every intermediate inside 31 bits:
\* exact (rounded down) when a * b or b * c fits, else b and c are halved
RECURSIVE MulDiv(_, _, _)
MulDiv(a, b, c) ==
    IF a = 0 \/ b = 0 THEN 0
    ELSE IF a <= MaxInt \div b THEN (a * b) \div c
    ELSE IF b <= MaxInt \div c THEN (a \div c) * b + ((a % c) * b) \div c
    ELSE IF a <= MaxInt \div c THEN (b \div c) * a + ((b % c) * a) \div c
    ELSE MulDiv(a, (b + 1) \div 2, (c + 1) \div 2)

\* a * b / c for signed a
SMulDiv(a, b, c) == IF a >= 0 THEN MulDiv(a, b, c) ELSE -MulDiv(-a, b, c)

\* floor of the square root, by bisection on lo <= r < hi
RECURSIVE SqrtIn(_, _, _)
SqrtIn(n, lo, hi) ==
    IF hi - lo <= 1 THEN lo
    ELSE LET mid == (lo + hi) \div 2
         IN IF mid * mid <= n THEN SqrtIn(n, mid, hi) ELSE SqrtIn(n, lo, mid)
ISqrt(n) == SqrtIn(n, 0, 46341)

\* floor of the cube root, by bisection on lo <= r < hi
RECURSIVE CbrtIn(_, _, _)
CbrtIn(n, lo, hi) ==
    IF hi - lo <= 1 THEN lo
    ELSE LET mid == (lo + hi) \div 2
         IN IF mid * mid * mid <= n THEN CbrtIn(n, mid, hi) ELSE CbrtIn(n, lo, mid)
ICbrt(n) == CbrtIn(n, 0, 1291)

\* ------------------------------------------------------------------- state
VARIABLES
    celestialBodies,            \* the registry: a sequence of bodies
    gravityBlendFactor,         \* 0 .. One
    sunAbsorptionProgress,      \* 0 .. One
    gameWon,
    playerIsGravitationalCenter,
    sunCurrentGameMass,         \* the sun's remaining game mass
    currentEjectionMultiplier,  \* in hundredths (100 = 1.0)
    lastClickTime,
    lastEjectionDecayTime,
    playerNeedsReset,
    currentGameSpeed,           \* in tenths (1 = 0.1, 10 = 1.0)
    now,                        \* the clock, ms
    lastTime,                   \* gameLoop's lastTime
    dt,                         \* the dt of the running tick, ms
    pc,                         \* the position inside updatePhysics
    ticks,                      \* ticks run so far (bounded by MaxTicks)
    ejects,                     \* eject requests so far (bounded by MaxEjects)
    collisionLog,               \* the pairs resolved by the last checkCollisions
    pairLog                     \* the last checkCollisions: its registry, time and tested pairs

vars == <<celestialBodies, gravityBlendFactor, sunAbsorptionProgress, gameWon,
          playerIsGravitationalCenter, sunCurrentGameMass,
          currentEjectionMultiplier, lastClickTime, lastEjectionDecayTime,
          playerNeedsReset, currentGameSpeed, now, lastTime, dt, pc, ticks,
          ejects, collisionLog, pairLog>>

\* ------------------------------------------------------------ CelestialBody
\* new CelestialBody(x, y, vx, vy, mass, isPlayer, isSun, isSpark) at time t;
\* nan: the position and velocity are not finite numbers
CelestialBody(x, y, vx, vy, mass, isPlayer, isSun, isSpark, t) ==
    [x |-> x, y |-> y, vx |-> vx, vy |-> vy, mass |-> mass,
     isPlayer |-> isPlayer, isSun |-> isSun, isSpark |-> isSpark,
     isGravitationalCenter |-> isSun, creationTime |-> t, nan |-> FALSE]

\* set mass(newMass)
SetMass(b, newMass) == [b EXCEPT !.mass = Max(0, newMass)]

\* getSunDisplayRadius(gameMass / SUN_GAME_MASS), in tenths
GetSunDisplayRadius(gameMass) ==
    ICbrt(Max(0, gameMass) *
          ((SUN_DISPLAY_RADIUS * 10 * SUN_DISPLAY_RADIUS * 10 * SUN_DISPLAY_RADIUS * 10)
             \div SUN_GAME_MASS))

\* calculateRadiusFromMass(mass), in tenths: 300 * cbrt(mass / PLAYER_INITIAL_MASS)
CalculateRadiusFromMass(mass) ==
    IF mass <= 0 THEN 1
    ELSE IF mass <= 7000000 THEN ICbrt(270 * mass)
    ELSE 10 * ICbrt((27 * mass) \div 100)

\* get radius(), in tenths; gameMass is sunCurrentGameMass
Radius(b, gameMass) ==
    IF b.isSun THEN Max(10, GetSunDisplayRadius(gameMass))
    ELSE Max(5, CalculateRadiusFromMass(b.mass))

\* celestialBodies.find(b => b.isSun) and friends: the index, 0 if absent
FindSun(bodies) ==
    IF \E i \in 1..Len(bodies) : bodies[i].isSun
    THEN CHOOSE i \in 1..Len(bodies) :
            bodies[i].isSun /\ \A k \in 1..(i - 1) : ~bodies[k].isSun
    ELSE 0
FindPlayer(bodies) ==
    IF \E i \in 1..Len(bodies) : bodies[i].isPlayer
    THEN CHOOSE i \in 1..Len(bodies) :
            bodies[i].isPlayer /\ \A k \in 1..(i - 1) : ~bodies[k].isPlayer
    ELSE 0
FindCenter(bodies) ==
    IF \E i \in 1..Len(bodies) : bodies[i].isGravitationalCenter
    THEN CHOOSE i \in 1..Len(bodies) :
            bodies[i].isGravitationalCenter
            /\ \A k \in 1..(i - 1) : ~bodies[k].isGravitationalCenter
    ELSE 0

\* the sequence without its k-th element: splice(k, 1)
RemoveAt(s, k) == SubSeq(s, 1, k - 1) \o SubSeq(s, k + 1, Len(s))

\* the array f[1], ..., f[n] as a sequence
AsSeq(f, n) == SubSeq(f, 1, n)

\* ---------------------------------------------------------------- cleanup
\* updatePhysics, cleanup: the filter's predicate at time t
Keep_Sparks(b, t) ==
    ~(~b.isPlayer /\ ~b.isGravitationalCenter /\ ~b.isSun /\ ~b.isSpark
      /\ b.mass < MIN_BODY_MASS)

Keep(b, t) ==
    /\ ~(b.isSpark /\ t - b.creationTime >= SPARK_LIFESPAN)
    /\ ~(~b.isPlayer /\ ~b.isGravitationalCenter /\ ~b.isSun /\ ~b.isSpark
         /\ b.mass < MIN_BODY_MASS)
\* variant of Cleanup: a player lighter than at the start is filtered out too
Cleanup_LightPlayer(bodies, t) ==
    SelectSeq(bodies, LAMBDA b : Keep(b, t) /\ ~(b.isPlayer /\ b.mass < PLAYER_INITIAL_MASS))

Cleanup(bodies, t) == SelectSeq(bodies, LAMBDA b : Keep(b, t))

\* ---------------------------------------------------------------- gravity
\* gameDt = dt * currentGameSpeed, in units of 0.1 ms
GameDt(d, speed) == d * speed

\* sqrt(distSq) in sixteenths of a unit
Dist16(distSq) ==
    IF distSq <= 8000000 THEN ISqrt(distSq * 256) ELSE 16 * ISqrt(distSq)

\* the divisor of  acc = G * effectiveMass / distSq
GravityDivisor(b, src) ==
    (src.x - b.x) * (src.x - b.x) + (src.y - b.y) * (src.y - b.y)

\* one source's pull on one body: body.vx += acc * dx / dist * gameDt.
\* gm is G times the effective mass of the source.
\* A non-finite position gives dist = NaN and (dist > 0) false: no change.
\* distSq = 0 gives acc = Infinity and Infinity * 0 = NaN.
Pull(b, src, gm, gdt) ==
    LET dx == src.x - b.x
        dy == src.y - b.y
        distSq == GravityDivisor(b, src)
        acc == gm \div distSq
        ax == MulDiv(acc, Abs(dx) * 16, Dist16(distSq))
        ay == MulDiv(acc, Abs(dy) * 16, Dist16(distSq))
        dvx == MulDiv(ax, gdt, 10000)
        dvy == MulDiv(ay, gdt, 10000)
    IN  IF b.nan \/ src.nan THEN b
        ELSE IF distSq = 0 THEN [b EXCEPT !.nan = TRUE]
        ELSE [b EXCEPT !.vx = @ + (IF dx >= 0 THEN dvx ELSE -dvx),
                       !.vy = @ + (IF dy >= 0 THEN dvy ELSE -dvy)]

\* G * SUN_GRAVITATIONAL_MASS * (1 - gravityBlendFactor)
SunGravMass(blend) == MulDiv(G_SUN_GRAVITATIONAL_MASS, One - blend, One)

\* G * player.mass * GRAVITY_CROSSOVER_MULTIPLIER, with
\* GRAVITY_CROSSOVER_MULTIPLIER = SUN_GRAVITATIONAL_MASS / SUN_GAME_MASS
PlayerGravMass(mass) == MulDiv(G_SUN_GRAVITATIONAL_MASS, mass, SUN_GAME_MASS)

\* the sun's pass: every body but the sun and the massless
SunGravity(bodies, blend, gdt) ==
    LET s == FindSun(bodies)
    IN  IF blend < One /\ s # 0
        THEN AsSeq([i \in 1..Len(bodies) |->
                      IF i = s \/ bodies[i].mass <= 0 THEN bodies[i]
                      ELSE Pull(bodies[i], bodies[s], SunGravMass(blend), gdt)],
                   Len(bodies))
        ELSE bodies

\* a player's pass that does not skip the sun
PlayerGravity_PullsSun(bodies, at, blend, gdt) ==
    LET p == FindPlayer(bodies)
    IN  IF blend > 0 /\ p # 0 /\ bodies[p].mass > 0
        THEN AsSeq([i \in 1..Len(bodies) |->
                      IF i = p \/ bodies[i].mass <= 0 THEN bodies[i]
                      ELSE Pull(bodies[i], at[p],
                                MulDiv(PlayerGravMass(bodies[p].mass), blend, One), gdt)],
                   Len(bodies))
        ELSE bodies

\* the player's pass: every body but the player, the sun and the massless.
\* at is the registry as the stage found it: the sun's pass has changed
\* velocities only, so the player's position is the one in at.
PlayerGravity(bodies, at, blend, gdt) ==
    LET p == FindPlayer(bodies)
    IN  IF blend > 0 /\ p # 0 /\ bodies[p].mass > 0
        THEN AsSeq([i \in 1..Len(bodies) |->
                      IF i = p \/ bodies[i].mass <= 0 \/ bodies[i].isSun THEN bodies[i]
                      ELSE Pull(bodies[i], at[p],
                                MulDiv(PlayerGravMass(bodies[p].mass), blend, One), gdt)],
                   Len(bodies))
        ELSE bodies

\* the post-win pass: the player is the sole source
PostWinGravity(bodies, won, gdt) ==
    LET p == FindPlayer(bodies)
    IN  IF FindSun(bodies) = 0 /\ won /\ p # 0
        THEN AsSeq([i \in 1..Len(bodies) |->
                      IF i = p \/ bodies[i].mass <= 0 THEN bodies[i]
                      ELSE Pull(bodies[i], bodies[p], PlayerGravMass(bodies[p].mass), gdt)],
                   Len(bodies))
        ELSE bodies

\* the three passes in the order of updatePhysics
ApplyGravity(bodies, blend, won, gdt) ==
    PostWinGravity(PlayerGravity(SunGravity(bodies, blend, gdt), bodies, blend, gdt),
                   won, gdt)

\* ------------------------------------------------------------ integration
\* the speed clamp: |v| > MAX_V scales v to length MAX_V
ClampVelocity(b) ==
    LET small == Abs(b.vx) <= 2 * MAX_V /\ Abs(b.vy) <= 2 * MAX_V
        k == Max(Abs(b.vx), Abs(b.vy)) \div MAX_V + 1
        ux == IF small THEN b.vx ELSE Quot(b.vx, k)
        uy == IF small THEN b.vy ELSE Quot(b.vy, k)
        sSq == ux * ux + uy * uy
    IN  IF ~small \/ sSq > MAX_V * MAX_V
        THEN [b EXCEPT !.vx = Quot(ux * MAX_V, ISqrt(sSq)),
                       !.vy = Quot(uy * MAX_V, ISqrt(sSq))]
        ELSE b

\* body.x += body.vx * gameDt after the clamp
Integrate(b, gdt) ==
    IF b.nan THEN b
    ELSE LET c == ClampVelocity(b)
         IN [c EXCEPT !.x = @ + SMulDiv(c.vx, gdt, 10000),
                      !.y = @ + SMulDiv(c.vy, gdt, 10000)]

UpdatePositions(bodies, gdt) ==
    AsSeq([i \in 1..Len(bodies) |-> Integrate(bodies[i], gdt)], Len(bodies))

\* -------------------------------------------------------------- collisions
\* n1 / n2: an ordinary body younger than the immunity window
Immune(b, t) ==
    ~b.isSpark /\ ~b.isSun /\ ~b.isPlayer /\ t - b.creationTime < EJECTION_COLLISION_DELAY

\* variant of Excluded: the player and the sun are a pair like any other
Excluded_PlayerMeetsSun(b1, b2, t) ==
    LET n1 == Immune(b1, t)
        n2 == Immune(b2, t)
    IN  \/ (b1.isPlayer /\ b2.isSpark) \/ (b2.isPlayer /\ b1.isSpark)
        \/ (b1.isSpark /\ b2.isSpark)
        \/ (b1.isPlayer /\ n2) \/ (b2.isPlayer /\ n1)
        \/ (b1.isSpark /\ n2) \/ (b2.isSpark /\ n1)
        \/ (n1 /\ n2)
        \/ (b1.isSpark /\ ~b2.isSpark /\ ~b2.isPlayer /\ ~b2.isGravitationalCenter)
        \/ (b2.isSpark /\ ~b1.isSpark /\ ~b1.isPlayer /\ ~b1.isGravitationalCenter)

\* the exclusion rules of checkCollisions, in the order of the code
Excluded(b1, b2, t) ==
    LET n1 == Immune(b1, t)
        n2 == Immune(b2, t)
    IN  \/ (b1.isPlayer /\ b2.isSpark) \/ (b2.isPlayer /\ b1.isSpark)
        \/ (b1.isSpark /\ b2.isSpark)
        \/ (b1.isPlayer /\ n2) \/ (b2.isPlayer /\ n1)
        \/ (b1.isSpark /\ n2) \/ (b2.isSpark /\ n1)
        \/ (n1 /\ n2)
        \/ (b1.isSpark /\ ~b2.isSpark /\ ~b2.isPlayer /\ ~b2.isGravitationalCenter)
        \/ (b2.isSpark /\ ~b1.isSpark /\ ~b1.isPlayer /\ ~b1.isGravitationalCenter)
        \/ (b1.isPlayer /\ b2.isSun) \/ (b2.isPlayer /\ b1.isSun)

\* the geometric test: not (distSq >= cr * cr); a NaN distance compares false
Overlap(b1, b2, gameMass) ==
    LET dx == b2.x - b1.x
        dy == b2.y - b1.y
        distSq == dx * dx + dy * dy
        cr == Radius(b1, gameMass) + Radius(b2, gameMass)
    IN  \/ b1.nan \/ b2.nan
        \/ (distSq <= MaxInt \div 100 /\ distSq * 100 < cr * cr)

\* variant of CollisionTransfer: the rate is not capped by the small body's mass
CollisionTransfer_Uncapped(small, d) ==
    Max(0, IF small.isSpark THEN small.mass
           ELSE MulDiv(small.mass, MASS_TRANSFER_PERCENT_PER_SEC * d, 1000))

\* the mass a resolved pair moves from small to big in a tick of d ms
CollisionTransfer(small, d) ==
    Max(0, IF small.isSpark THEN small.mass
           ELSE Min(small.mass, MulDiv(small.mass, MASS_TRANSFER_PERCENT_PER_SEC * d, 1000)))

\* (m1 * v1 + m2 * v2) / (m1 + m2)
Momentum(m1, v1, m2, v2) == v1 + SMulDiv(v2 - v1, m2, m1 + m2)

\* big after absorbing transfer from small
AbsorbInto(big, small, transfer) ==
    LET moved == IF big.isPlayer /\ transfer > 0 /\ big.mass + transfer > 0
                 THEN [big EXCEPT !.vx = Momentum(big.mass, big.vx, transfer, small.vx),
                                  !.vy = Momentum(big.mass, big.vy, transfer, small.vy),
                                  !.nan = big.nan \/ small.nan]
                 ELSE big
    IN  SetMass(moved, big.mass + transfer)

\* variant of GiveAway: the small body keeps what it gives
GiveAway_Kept(small, transfer) == small

\* small after giving transfer away
GiveAway(small, transfer) == SetMass(small, small.mass - transfer)

\* the small body is spliced out of the registry
Removed(smallAfter, transfer) ==
    \/ smallAfter.mass <= MIN_BODY_MASS
    \/ (smallAfter.isSpark /\ transfer * 100 >= smallAfter.mass * 99)

\* variant of Skipped: every overlapping pair is resolved
Skipped_Never(big, small) == FALSE

\* an overlapping pair that is left alone
Skipped(big, small) == small.isGravitationalCenter \/ big.isSpark

\* the loops of checkCollisions: i from the end, j below i.
\* The result is [bodies, reset, log, tested, ids]: log lists the resolved
\* pairs, tested the pairs that reached the distance test, as pairs of the
\* indices the two bodies had when the pass began; ids[k] is the index the
\* body now at k had when the pass began.
RECURSIVE CollideOuter(_, _, _, _, _, _)
RECURSIVE CollideInner(_, _, _, _, _, _, _)
CollideOuter(bodies, i, log, t, d, gameMass) ==
    IF i < 1 THEN [bodies |-> bodies, reset |-> FALSE, log |-> log.pairs,
                   tested |-> log.tested, ids |-> log.ids]
    ELSE CollideInner(bodies, i, i - 1, log, t, d, gameMass)
CollideInner(bodies, i, j, log, t, d, gameMass) ==
    IF j < 1 THEN CollideOuter(bodies, i - 1, log, t, d, gameMass)
    ELSE
    LET b1 == bodies[i]
        b2 == bodies[j]
        b1Big == b1.mass >= b2.mass
        big == IF b1Big THEN b1 ELSE b2
        small == IF b1Big THEN b2 ELSE b1
        bigI == IF b1Big THEN i ELSE j
        smallI == IF b1Big THEN j ELSE i
        transfer == CollisionTransfer(small, d)
        bigAfter == AbsorbInto(big, small, transfer)
        smallAfter == GiveAway(small, transfer)
        moved == [bodies EXCEPT ![bigI] = bigAfter, ![smallI] = smallAfter]
        entry == [big |-> big, small |-> small, transfer |-> transfer,
                  bigAfter |-> bigAfter.mass, smallAfter |-> smallAfter.mass,
                  removed |-> ~(small.isPlayer /\ smallAfter.mass < MIN_PLAYER_MASS)
                              /\ Removed(smallAfter, transfer)]
        seen == [log EXCEPT !.tested = Append(@, <<log.ids[i], log.ids[j]>>)]
        log2 == [seen EXCEPT !.pairs = Append(@, entry)]
    IN  IF Excluded(b1, b2, t)
        THEN CollideInner(bodies, i, j - 1, log, t, d, gameMass)
        ELSE IF ~Overlap(b1, b2, gameMass) \/ Skipped(big, small)
        THEN CollideInner(bodies, i, j - 1, seen, t, d, gameMass)
        ELSE IF small.isPlayer /\ smallAfter.mass < MIN_PLAYER_MASS
        THEN [bodies |-> moved, reset |-> TRUE, log |-> log2.pairs,
              tested |-> log2.tested, ids |-> log2.ids]
        ELSE IF Removed(smallAfter, transfer)
        THEN CollideOuter(RemoveAt(moved, smallI),
                          (IF bigI > smallI THEN bigI - 1 ELSE bigI) - 1,
                          [log2 EXCEPT !.ids = RemoveAt(@, smallI)], t, d, gameMass)
        ELSE CollideInner(moved, i, j - 1, log2, t, d, gameMass)

\* checkCollisions(dt) at time t
CheckCollisions(bodies, t, d, gameMass) ==
    CollideOuter(bodies, Len(bodies),
                 [pairs |-> << >>, tested |-> << >>,
                  ids |-> AsSeq([k \in 1..Len(bodies) |-> k], Len(bodies))],
                 t, d, gameMass)

\* ------------------------------------------------------------- absorption
\* sqrt(dx*dx + dy*dy) in tenths of a unit
Dist10(b1, b2) ==
    LET distSq == (b2.x - b1.x) * (b2.x - b1.x) + (b2.y - b1.y) * (b2.y - b1.y)
    IN  IF distSq <= 20000000 THEN ISqrt(distSq * 100) ELSE 10 * ISqrt(distSq)

\* canAbsorb: player.mass / SUN_GAME_MASS >= SUN_ABSORPTION_START_RATIO
CanAbsorb(mass) == mass * 10 >= SUN_ABSORPTION_START_RATIO * SUN_GAME_MASS

\* touchDist = player.radius + sun.radius, in tenths
TouchDist(player, sun, gameMass) == Radius(player, gameMass) + Radius(sun, gameMass)

\* variant of AbsorptionRange: a range a hundred touch distances wide
AbsorptionRange_Wide(touch) == touch * 100

\* absorptionRange = touchDist * SUN_ABSORPTION_RANGE_MULTIPLIER, in tenths
AbsorptionRange(touch) == (touch * SUN_ABSORPTION_RANGE_MULTIPLIER) \div 10

\* variant of TouchesSun with the factor 0.5
TouchesSun_Half(dist, touch) == dist * 10 < touch * 5

\* dist < touchDist * 0.8
TouchesSun(dist, touch) == dist * 10 < touch * 8

\* proximity in thousandths: 1 - (dist - touch/2) / (range - touch/2), clamped
Proximity(dist, touch) ==
    Clamp(1000 - Quot((2 * dist - touch) * 1000, 2 * AbsorptionRange(touch) - touch),
          0, 1000)

\* advantage in thousandths: (massRatio - start) / (1 - start), at most 2
Advantage(mass) ==
    Min(2000, Quot((mass * 10 - SUN_ABSORPTION_START_RATIO * SUN_GAME_MASS) \div 10 ,
                   ((10 - SUN_ABSORPTION_START_RATIO) * SUN_GAME_MASS) \div 10000))

\* rate = SUN_ABSORPTION_RATE * proximity * max(0.2, advantage), in thousandths per second
AbsorptionRate(dist, touch, mass) ==
    (SUN_ABSORPTION_RATE * Proximity(dist, touch) * Max(200, Advantage(mass))) \div 10000

\* transfer = min(gameMass, gameMass * rate * gameDt), at least 0
AbsorptionTransfer(gameMass, rate, gdt) ==
    Max(0, Min(gameMass, MulDiv(MulDiv(gameMass, rate, 1000), gdt, 10000)))

\* variant of Progress: the share of the game mass that is left
Progress_Left(gameMass) == MulDiv(gameMass, One, SUN_GAME_MASS)

\* sunAbsorptionProgress = 1 - sunCurrentGameMass / SUN_GAME_MASS
Progress(gameMass) == One - MulDiv(gameMass, One, SUN_GAME_MASS)

\* variant of WinCheck with the threshold at 1%
WinCheck_OnePercent(gameMass) == gameMass * 100 < SUN_GAME_MASS

\* variant of WinCheck: the game is won when nothing of the sun is left
WinCheck_Empty(gameMass) == gameMass <= 0

\* the win check: sunCurrentGameMass < SUN_GAME_MASS * 0.02
WinCheck(gameMass) == gameMass * 100 < SUN_GAME_MASS * WIN_PERCENT

\* variant of Decay without the clamp at 0
Decay_NoFloor(blend, rate, d) == blend - MulDiv(One, rate * d, 10000)

\* gravityBlendFactor - rate * dt, not below 0 (rate in tenths per second)
Decay(blend, rate, d) == Max(0, blend - MulDiv(One, rate * d, 10000))

\* ---------------------------------------------------------------- ejection
\* the mouse directions the model aims at: (cos, sin) in thousandths
AimDirs == { <<1000, 0>>, <<0, -1000>> }

\* the random draws of one ejection: every spark k takes sign * (-1)^k as
\* its (Math.random() - 0.5) * 2, for its angle and for its speed, so the
\* sparks fan out to both sides of the aim at the extreme spread
SparkDraws == { 1 }

\* variant of ClickMultiplier: the growth is not capped
ClickMultiplier_Uncapped(mult, timeSince) ==
    IF timeSince <= QUICK_CLICK_THRESHOLD THEN mult * EJECTION_GROWTH_RATE ELSE 100

\* the multiplier after a click at timeSince ms from the last one
ClickMultiplier(mult, timeSince) ==
    IF timeSince <= QUICK_CLICK_THRESHOLD
    THEN Min(mult * EJECTION_GROWTH_RATE, MAX_EJECTION_MULTIPLIER * 100)
    ELSE 100

\* initMass * BASE_EJECTION_MASS_PERCENT
BaseEjection(initMass) == MulDiv(initMass, BASE_EJECTION_MASS_PERCENT, 10000)

\* ejectedMass before the floor: min(init * base% * mult, init * MAX_EJECTION_PERCENTAGE)
RawEjection(initMass, mult) ==
    Min(MulDiv(initMass, BASE_EJECTION_MASS_PERCENT * mult, 1000000), initMass \div 2)

\* variant of EjectedMass without the floor
EjectedMass_NoFloor(initMass, mult) == RawEjection(initMass, mult)

\* ejectedMass: lowered so that the player keeps MIN_PLAYER_MASS
EjectedMass(initMass, mult) ==
    IF initMass - RawEjection(initMass, mult) < MIN_PLAYER_MASS
    THEN initMass - MIN_PLAYER_MASS
    ELSE RawEjection(initMass, mult)

\* normInt in thousandths
NormInt(ejectedMass, initMass) ==
    Clamp(Quot((MulDiv(ejectedMass, 1000000, initMass) - 100 * BASE_EJECTION_MASS_PERCENT) * 1000,
               500000 - 100 * BASE_EJECTION_MASS_PERCENT), 0, 1000)

\* numSparks = round(MIN_SPARKS + (MAX_SPARKS - MIN_SPARKS) * normInt)
NumSparks(normInt) == (MIN_SPARKS * 1000 + (MAX_SPARKS - MIN_SPARKS) * normInt + 500) \div 1000

\* sparkSpeedMult in thousandths: 0.8 + (2.2 - 0.8) * normInt * 170
SparkSpeedMult(normInt) == 800 + (1400 * normInt * 170) \div 1000

\* sparkSpreadAngle in milliradians: pi/6 - (pi/6 - pi/18) * normInt * 15
SparkSpreadAngle(normInt) == 524 - (349 * normInt * 15) \div 1000

\* mainSpeed = EJECTION_BASE_SPEED * sqrt(init * base% / ejectedMass)
MainSpeed(ejectedMass, initMass) ==
    (EJECTION_BASE_SPEED * ISqrt(MulDiv(BaseEjection(initMass), 1000000, ejectedMass))) \div 1000

\* the main ejected body
EjectedBody(player, aim, ejectedMass, mainSpeed, t) ==
    LET sd == Radius(player, 0)
              + (CalculateRadiusFromMass(ejectedMass) * 11) \div 10
        b == CelestialBody(player.x + Quot(aim[1] * sd, 10000),
                           player.y + Quot(aim[2] * sd, 10000),
                           player.vx + Quot(aim[1] * mainSpeed, 1000),
                           player.vy + Quot(aim[2] * mainSpeed, 1000),
                           ejectedMass, FALSE, FALSE, FALSE, t)
    IN  [b EXCEPT !.nan = player.nan]

\* the k-th spark; draw is the sign of its two random numbers
Spark(player, aim, mainSpeed, normInt, draw, t) ==
    LET sd == Radius(player, 0)
              + (CalculateRadiusFromMass(SPARK_MASS) * 15) \div 10
        \* sa = angle + (rand - 0.5) * spread: a rotation by delta milliradians
        delta == (draw * SparkSpreadAngle(normInt)) \div 2
        cosD == 1000 - (delta * delta) \div 2000
        ca == Quot(aim[1] * cosD - aim[2] * delta, 1000)
        sa == Quot(aim[2] * cosD + aim[1] * delta, 1000)
        \* ss = mainSpeed * sparkSpeedMult * (1 + (rand - 0.5) * 2 * SPARK_SPEED_RANDOMNESS)
        ss == MulDiv(MulDiv(mainSpeed, SparkSpeedMult(normInt), 1000), 1000 + draw * 200, 1000)
        b == CelestialBody(player.x + Quot(aim[1] * sd, 10000),
                           player.y + Quot(aim[2] * sd, 10000),
                           player.vx + SMulDiv(ca, ss, 1000),
                           player.vy + SMulDiv(sa, ss, 1000),
                           SPARK_MASS, FALSE, FALSE, TRUE, t)
    IN  [b EXCEPT !.nan = player.nan]

\* the recoil: player.v -= dir * (ejectedMass * mainSpeed / player.mass) * multiplier
Recoil(player, aim, ejectedMass, mainSpeed) ==
    LET imp == MulDiv(ejectedMass * EJECTION_PROPULSION_MULTIPLIER, mainSpeed, player.mass)
    IN  IF player.mass > 0
        THEN [player EXCEPT !.vx = @ - Quot(aim[1] * imp, 1000),
                            !.vy = @ - Quot(aim[2] * imp, 1000)]
        ELSE player

\* the registry after ejectMass has run past its guards
EjectFrom(bodies, p, aim, draw, mult, t) ==
    LET initMass == bodies[p].mass
        ejectedMass == EjectedMass(initMass, mult)
        normInt == NormInt(ejectedMass, initMass)
        mainSpeed == MainSpeed(ejectedMass, initMass)
        player == SetMass(bodies[p], initMass - ejectedMass)
        main == IF ejectedMass >= MIN_BODY_MASS
                THEN <<EjectedBody(player, aim, ejectedMass, mainSpeed, t)>>
                ELSE << >>
        sparks == AsSeq([k \in 1..NumSparks(normInt) |->
                           Spark(player, aim, mainSpeed, normInt,
                                 IF k % 2 = 1 THEN draw ELSE -draw, t)],
                        NumSparks(normInt))
    IN  [bodies EXCEPT ![p] = Recoil(player, aim, ejectedMass, mainSpeed)]
        \o main \o sparks

\* variant of DecayedMultiplier: the multiplier is left as it is
DecayedMultiplier_Stuck(mult) == mult

\* decayEjectionMultiplier at time t: the new multiplier
DecayDue(t, lastClick, lastDecay) ==
    t - lastClick > QUICK_CLICK_THRESHOLD /\ t - lastDecay > EJECTION_DECAY_INTERVAL
DecayedMultiplier(mult) == Max(100, (mult * EJECTION_DECAY_RATE) \div 100)

\* -------------------------------------------------------------- population
\* the random draws of populateSystem for one body: the angle as (cos, sin)
\* in thousandths, the distance draw u and the speed factor sf in thousandths,
\* the mass
PopChoices ==
    { [c |-> 1000, s |-> 0, u |-> 0, sf |-> 1000, mass |-> PLAYER_INITIAL_MASS \div 50],
      [c |-> 0, s |-> -1000, u |-> 100, sf |-> 900, mass |-> PLAYER_INITIAL_MASS * 2] }

\* one body of populateSystem around centerBody
PopulatedBody(center, pick, gameMass, t) ==
    LET baseDist == Max(Radius(center, gameMass), SUN_DISPLAY_RADIUS * 10)
        distance == ((baseDist * 35) \div 10 + MulDiv(pick.u, baseDist * 15, 1000)) \div 10
        gravMass == IF center.isSun THEN G_SUN_GRAVITATIONAL_MASS
                    ELSE PlayerGravMass(center.mass)
        orbitalSpeed == ISqrt(gravMass \div Max(1, distance))
        speed == (orbitalSpeed * pick.sf) \div 1000
    IN  CelestialBody(center.x + Quot(pick.c * distance, 1000),
                      center.y + Quot(pick.s * distance, 1000),
                      center.vx - Quot(pick.s * speed, 1000),
                      center.vy + Quot(pick.c * speed, 1000),
                      Max(MIN_BODY_MASS, pick.mass), FALSE, FALSE, FALSE, t)

\* populateSystem(Len(picks)) with the draws picks
PopulateSystem(bodies, picks, gameMass, t) ==
    IF FindCenter(bodies) = 0 THEN bodies
    ELSE bodies \o AsSeq([k \in 1..Len(picks) |->
                            PopulatedBody(bodies[FindCenter(bodies)], picks[k], gameMass, t)],
                         Len(picks))

\* the player of initializeGame and resetPlayer: on a circular orbit above the sun
StartPlayer(sun, orbitR, t) ==
    CelestialBody(sun.x, sun.y - orbitR,
                  sun.vx + ISqrt(G_SUN_GRAVITATIONAL_MASS \div orbitR), sun.vy,
                  PLAYER_INITIAL_MASS, TRUE, FALSE, FALSE, t)

\* variant of ResetRegistry that leaves an existing sun's mass as it is
ResetRegistry_MassKept(bodies, picks, t) ==
    LET s == FindSun(bodies)
        sun == IF s = 0
               THEN CelestialBody(0, 0, 0, 0, SUN_GAME_MASS, FALSE, TRUE, FALSE, t)
               ELSE [bodies[s] EXCEPT !.isGravitationalCenter = TRUE]
        orbitR == Max((Radius(sun, SUN_GAME_MASS) * 15) \div 100, (CanvasMin * 35) \div 100)
    IN  PopulateSystem(<<sun, StartPlayer(sun, orbitR, t)>>, picks, SUN_GAME_MASS, t)

\* the registry resetPlayer builds from the registry bodies
ResetRegistry(bodies, picks, t) ==
    LET s == FindSun(bodies)
        sun == IF s = 0
               THEN CelestialBody(0, 0, 0, 0, SUN_GAME_MASS, FALSE, TRUE, FALSE, t)
               ELSE [SetMass(bodies[s], SUN_GAME_MASS) EXCEPT !.isGravitationalCenter = TRUE]
        orbitR == Max((Radius(sun, SUN_GAME_MASS) * 15) \div 100, (CanvasMin * 35) \div 100)
    IN  PopulateSystem(<<sun, StartPlayer(sun, orbitR, t)>>, picks, SUN_GAME_MASS, t)

\* ----------------------------------------------------------- initial states
\* The sessions the model starts from.  The first is the session initializeGame
\* builds.  The others are the same session later in the game, when the
\* player has grown on the registry's bodies (400 in the program) and has
\* come near a body or the sun; such a state has
\*   gameMass  the sun's remaining game mass (its progress follows from it),
\*   lag       how far gravityBlendFactor has decayed below the progress,
\*   player, others  <<x, y, vx, vy, mass>> of the player and of ordinary
\*             bodies created long ago.
Sessions ==
    { \* a light player between a heavy body and a crumb
      [gameMass |-> SUN_GAME_MASS, lag |-> 0,
       player |-> <<0, -350, 1381, 0, 12000>>,
       others |-> << <<40, -350, 1381, 0, 200000>>, <<-20, -350, 1381, 0, 700>> >>],
      \* the starting player next to a crumb and two overlapping bodies
      [gameMass |-> SUN_GAME_MASS, lag |-> 0,
       player |-> <<0, -350, 1381, 0, PLAYER_INITIAL_MASS>>,
       others |-> << <<-33, -350, 1381, 0, 700>>, <<500, 0, 0, 1155, 50000>>,
                     <<510, 0, 0, 1155, 900>> >>],
      \* a quarter of the sun absorbed; the player has since ejected mass, is
      \* underweight again and falls into the sun
      [gameMass |-> (SUN_GAME_MASS * 3) \div 4, lag |-> 1000000,
       player |-> <<0, -125, 0, 800, 7000000>>,
       others |-> << <<600, 0, 0, 1054, 30000>> >>],
      \* an eligible player inside the absorption range of the full sun
      [gameMass |-> SUN_GAME_MASS, lag |-> 0,
       player |-> <<0, -400, 1291, 0, 8000000>>,
       others |-> << <<0, 700, -976, 0, 30000>> >>],
      \* half of the sun absorbed, the player outside the range and coming back
      [gameMass |-> SUN_GAME_MASS \div 2, lag |-> 540000,
       player |-> <<0, -660, 0, 1500, 17000000>>,
       others |-> << <<0, 900, -861, 0, 30000>> >>],
      \* half of the sun absorbed, the player leaving the range
      [gameMass |-> SUN_GAME_MASS \div 2, lag |-> 0,
       player |-> <<0, -650, 0, -1500, 17000000>>,
       others |-> << <<0, 900, -861, 0, 30000>> >>],
      \* the sun almost absorbed
      [gameMass |-> 361800, lag |-> 0,
       player |-> <<0, -400, 1291, 0, 25600000>>,
       others |-> << <<0, 700, -976, 0, 30000>> >>] }

SessionBody(q, isPlayer) ==
    CelestialBody(q[1], q[2], q[3], q[4], q[5], isPlayer, FALSE, FALSE, 0)

SessionRegistry(s) ==
    << CelestialBody(0, 0, 0, 0, s.gameMass, FALSE, TRUE, FALSE, 0),
       SessionBody(s.player, TRUE) >>
    \o AsSeq([k \in 1..Len(s.others) |-> SessionBody(s.others[k], FALSE)], Len(s.others))

\* pairLog before the first checkCollisions
NoPass ==
    [start |-> << >>, end |-> << >>, t |-> 0, d |-> 0, reset |-> FALSE,
     tested |-> << >>, ids |-> << >>]

InitCommon ==
    /\ gameWon = FALSE
    /\ playerIsGravitationalCenter = FALSE
    /\ currentEjectionMultiplier = 100
    /\ lastClickTime = 0
    /\ lastEjectionDecayTime = 0
    /\ playerNeedsReset = FALSE
    /\ currentGameSpeed = BASE_GAME_SPEED
    /\ now = StartTime
    /\ lastTime = StartTime
    /\ dt = 0
    /\ pc = "idle"
    /\ ticks = 0
    /\ ejects = 0
    /\ collisionLog = << >>
    /\ pairLog = NoPass

\* initializeGame
InitFresh ==
    /\ \E picks \in [1..INIT_NUM_BODIES -> PopChoices] :
          celestialBodies =
            ResetRegistry(<< >>, picks, StartTime)
    /\ sunCurrentGameMass = SUN_GAME_MASS
    /\ sunAbsorptionProgress = 0
    /\ gravityBlendFactor = 0
    /\ InitCommon

InitSession ==
    /\ \E s \in Sessions :
          /\ celestialBodies = SessionRegistry(s)
          /\ sunCurrentGameMass = s.gameMass
          /\ sunAbsorptionProgress = Progress(s.gameMass)
          /\ gravityBlendFactor = Max(0, Min(One, Progress(s.gameMass)) - s.lag)
    /\ InitCommon

Init == InitFresh \/ InitSession

\* ------------------------------------------------------------------ actions
Player == celestialBodies[FindPlayer(celestialBodies)]
Sun == celestialBodies[FindSun(celestialBodies)]

\* the time that passes between two frames
ElapseChoices == { 50, 1700 }

\* time passes (at most once between two frames)
Elapse ==
    /\ pc = "idle"
    /\ now = lastTime
    /\ ticks < MaxTicks
    /\ \E d \in ElapseChoices : now' = now + d
    /\ UNCHANGED <<celestialBodies, gravityBlendFactor, sunAbsorptionProgress, gameWon,
                   playerIsGravitationalCenter, sunCurrentGameMass,
                   currentEjectionMultiplier, lastClickTime, lastEjectionDecayTime,
                   playerNeedsReset, currentGameSpeed, lastTime, dt, pc, ticks,
                   ejects, collisionLog, pairLog>>

\* handleKeyDown(Space); a key event commutes with the passing of time and with
\* a click, so the model takes it when a frame is due
HandleKeyDown ==
    /\ pc = "idle"
    /\ now > lastTime
    /\ currentGameSpeed' = FAST_GAME_SPEED
    /\ UNCHANGED <<celestialBodies, gravityBlendFactor, sunAbsorptionProgress, gameWon,
                   playerIsGravitationalCenter, sunCurrentGameMass,
                   currentEjectionMultiplier, lastClickTime, lastEjectionDecayTime,
                   playerNeedsReset, now, lastTime, dt, pc, ticks, ejects, collisionLog, pairLog>>

\* handleKeyUp(Space)
HandleKeyUp ==
    /\ pc = "idle"
    /\ now > lastTime
    /\ currentGameSpeed' = BASE_GAME_SPEED
    /\ UNCHANGED <<celestialBodies, gravityBlendFactor, sunAbsorptionProgress, gameWon,
                   playerIsGravitationalCenter, sunCurrentGameMass,
                   currentEjectionMultiplier, lastClickTime, lastEjectionDecayTime,
                   playerNeedsReset, now, lastTime, dt, pc, ticks, ejects, collisionLog, pairLog>>

\* ejectMass(): the click handler, aiming at aim with the random draws draw;
\* the model takes the clicks of a frame interval at its end
EjectMass ==
    /\ pc = "idle"
    /\ now > lastTime
    /\ ejects < MaxEjects
    /\ ejects' = ejects + 1
    /\ \E aim \in AimDirs, draw \in SparkDraws :
         LET p == FindPlayer(celestialBodies)
             mult == ClickMultiplier(currentEjectionMultiplier, now - lastClickTime)
         IN  IF p = 0 \/ celestialBodies[p].mass <= MIN_PLAYER_MASS
             THEN UNCHANGED <<celestialBodies, currentEjectionMultiplier, lastClickTime>>
             ELSE IF EjectedMass(celestialBodies[p].mass, mult) <= 0
             THEN /\ currentEjectionMultiplier' = mult
                  /\ UNCHANGED <<celestialBodies, lastClickTime>>
             ELSE /\ currentEjectionMultiplier' = mult
                  /\ celestialBodies' = EjectFrom(celestialBodies, p, aim, draw, mult, now)
                  /\ lastClickTime' = now
    /\ UNCHANGED <<gravityBlendFactor, sunAbsorptionProgress, gameWon,
                   playerIsGravitationalCenter, sunCurrentGameMass, lastEjectionDecayTime,
                   playerNeedsReset, currentGameSpeed, now, lastTime, dt, pc, ticks,
                   collisionLog, pairLog>>

\* gameLoop: dt = min(now - lastTime, 0.1 s); updatePhysics begins with the cleanup
GameLoop ==
    /\ pc = "idle"
    /\ now - lastTime > 0
    /\ dt' = Min(now - lastTime, MaxDt)
    /\ lastTime' = now
    /\ ticks' = ticks + 1
    /\ celestialBodies' = Cleanup(celestialBodies, now)
    /\ pc' = "gravity"
    /\ UNCHANGED <<gravityBlendFactor, sunAbsorptionProgress, gameWon,
                   playerIsGravitationalCenter, sunCurrentGameMass,
                   currentEjectionMultiplier, lastClickTime, lastEjectionDecayTime,
                   playerNeedsReset, currentGameSpeed, now, ejects, collisionLog, pairLog>>

\* variant of NoCenterLeft: a registry without a sun is fatal
NoCenterLeft_NoSun(bodies, won) == FindSun(bodies) = 0

\* if (!sun && !player && !gameWon): the fatal state that asks for a reset
NoCenterLeft(bodies, won) == FindSun(bodies) = 0 /\ FindPlayer(bodies) = 0 /\ ~won

\* updatePhysics, gravity: the three passes and the fatal-state flag
Gravity ==
    /\ pc = "gravity"
    /\ celestialBodies' = ApplyGravity(celestialBodies, gravityBlendFactor, gameWon,
                                       GameDt(dt, currentGameSpeed))
    /\ playerNeedsReset' = (playerNeedsReset \/ NoCenterLeft(celestialBodies, gameWon))
    /\ pc' = "positions"
    /\ UNCHANGED <<gravityBlendFactor, sunAbsorptionProgress, gameWon,
                   playerIsGravitationalCenter, sunCurrentGameMass,
                   currentEjectionMultiplier, lastClickTime, lastEjectionDecayTime,
                   currentGameSpeed, now, lastTime, dt, ticks, ejects, collisionLog, pairLog>>

\* updatePhysics, update positions
Positions ==
    /\ pc = "positions"
    /\ celestialBodies' = UpdatePositions(celestialBodies, GameDt(dt, currentGameSpeed))
    /\ pc' = "collisions"
    /\ UNCHANGED <<gravityBlendFactor, sunAbsorptionProgress, gameWon,
                   playerIsGravitationalCenter, sunCurrentGameMass,
                   currentEjectionMultiplier, lastClickTime, lastEjectionDecayTime,
                   playerNeedsReset, currentGameSpeed, now, lastTime, dt, ticks, ejects,
                   collisionLog, pairLog>>

\* updatePhysics, collisions: checkCollisions(dt), then the reset test
Collisions ==
    /\ pc = "collisions"
    /\ LET r == CheckCollisions(celestialBodies, now, dt, sunCurrentGameMass)
       IN  /\ celestialBodies' = r.bodies
           /\ collisionLog' = r.log
           /\ pairLog' = [start |-> celestialBodies, end |-> r.bodies, t |-> now,
                          d |-> dt, reset |-> r.reset, tested |-> r.tested, ids |-> r.ids]
           /\ playerNeedsReset' = (playerNeedsReset \/ r.reset)
           /\ pc' = IF playerNeedsReset \/ r.reset THEN "reset" ELSE "absorption"
    /\ UNCHANGED <<gravityBlendFactor, sunAbsorptionProgress, gameWon,
                   playerIsGravitationalCenter, sunCurrentGameMass,
                   currentEjectionMultiplier, lastClickTime, lastEjectionDecayTime,
                   currentGameSpeed, now, lastTime, dt, ticks, ejects>>

\* resetPlayer(), after which updatePhysics returns
ResetPlayer ==
    /\ pc = "reset"
    /\ \E picks \in [1..INIT_NUM_BODIES -> PopChoices] :
          celestialBodies' = ResetRegistry(celestialBodies, picks, now)
    /\ sunCurrentGameMass' = SUN_GAME_MASS
    /\ gameWon' = FALSE
    /\ playerIsGravitationalCenter' = FALSE
    /\ sunAbsorptionProgress' = 0
    /\ gravityBlendFactor' = 0
    /\ currentEjectionMultiplier' = 100
    /\ lastClickTime' = 0
    /\ lastEjectionDecayTime' = 0
    /\ playerNeedsReset' = FALSE
    /\ pc' = "idle"
    /\ UNCHANGED <<currentGameSpeed, now, lastTime, dt, ticks, ejects, collisionLog, pairLog>>

\* variant of Absorbed: the player receives half of what the sun gives
Absorbed_Half(player, sun, transfer) ==
    SetMass([player EXCEPT !.vx = Momentum(player.mass, player.vx, transfer, sun.vx),
                           !.vy = Momentum(player.mass, player.vy, transfer, sun.vy)],
            player.mass + transfer \div 2)

\* the player after absorbing transfer of the sun's game mass
Absorbed(player, sun, transfer) ==
    SetMass([player EXCEPT !.vx = Momentum(player.mass, player.vx, transfer, sun.vx),
                           !.vy = Momentum(player.mass, player.vy, transfer, sun.vy)],
            player.mass + transfer)

\* variant of WinRegistry that leaves the flags of the bodies as they are
WinRegistry_FlagsKept(bodies, p, s, player) ==
    RemoveAt([bodies EXCEPT ![p] = player], s)

\* variant of WinRegistry that leaves the sun in the registry
WinRegistry_SunKept(bodies, p, s, player) ==
    [i \in 1..Len(bodies) |->
        IF i = p THEN [player EXCEPT !.isGravitationalCenter = TRUE]
        ELSE [bodies[i] EXCEPT !.isGravitationalCenter = FALSE]]

\* the registry after the win: the sun spliced out, the player the only center
WinRegistry(bodies, p, s, player) ==
    LET won == [bodies EXCEPT ![p] = [player EXCEPT !.isGravitationalCenter = TRUE]]
        rest == RemoveAt(won, s)
    IN  AsSeq([i \in 1..Len(rest) |->
                 IF rest[i].isPlayer /\ rest[i] = won[p] THEN rest[i]
                 ELSE [rest[i] EXCEPT !.isGravitationalCenter = FALSE]],
              Len(rest))

\* checkSunAbsorption(dt): the outcome for the state it is called in, as
\* [kind, bodies, gameMass, progress, blend, won, reset]
CheckSunAbsorption(bodies, gameMass, progress, blend, won, reset, d, speed) ==
    LET p == FindPlayer(bodies)
        s == FindSun(bodies)
        same == [kind |-> "none", bodies |-> bodies, gameMass |-> gameMass,
                 progress |-> progress, blend |-> blend, won |-> won, reset |-> reset]
        player == bodies[p]
        sun == bodies[s]
        dist == Dist10(player, sun)
        touch == TouchDist(player, sun, gameMass)
        rate == AbsorptionRate(dist, touch, player.mass)
        transfer == AbsorptionTransfer(gameMass, rate, GameDt(d, speed))
        left == gameMass - transfer
        fed == Absorbed(player, sun, transfer)
    IN  IF won \/ p = 0 \/ s = 0 THEN same
        ELSE IF ~CanAbsorb(player.mass)
        THEN [same EXCEPT !.kind = "ineligible",
                          !.reset = reset \/ (~player.nan /\ TouchesSun(dist, touch)),
                          !.blend = Decay(blend, 5, d)]
        ELSE IF ~player.nan /\ dist > AbsorptionRange(touch)
        THEN [same EXCEPT !.kind = "outOfRange", !.blend = Decay(blend, 3, d)]
        ELSE IF player.nan
        THEN \* dist is NaN: so are the transfer, the masses, the progress and the blend
             [same EXCEPT !.kind = "absorbing",
                          !.bodies = [bodies EXCEPT ![p].mass = NaN, ![s].mass = NaN],
                          !.gameMass = NaN, !.progress = NaN, !.blend = NaN]
        ELSE IF transfer <= 0 THEN [same EXCEPT !.kind = "noTransfer"]
        ELSE IF WinCheck(left)
        THEN [kind |-> "won",
              bodies |-> WinRegistry(bodies, p, s, SetMass(fed, fed.mass + left)),
              gameMass |-> 0, progress |-> Progress(left), blend |-> One,
              won |-> TRUE, reset |-> reset]
        ELSE [kind |-> "absorbing",
              bodies |-> [bodies EXCEPT ![p] = fed, ![s] = SetMass(sun, left)],
              gameMass |-> left, progress |-> Progress(left),
              blend |-> Min(One, Progress(left)), won |-> FALSE, reset |-> reset]

\* updatePhysics, sun absorption
SunAbsorption ==
    /\ pc = "absorption"
    /\ LET r == CheckSunAbsorption(celestialBodies, sunCurrentGameMass,
                                   sunAbsorptionProgress, gravityBlendFactor, gameWon,
                                   playerNeedsReset, dt, currentGameSpeed)
       IN  /\ celestialBodies' = r.bodies
           /\ sunCurrentGameMass' = r.gameMass
           /\ sunAbsorptionProgress' = r.progress
           /\ gravityBlendFactor' = r.blend
           /\ gameWon' = r.won
           /\ playerIsGravitationalCenter' = (playerIsGravitationalCenter \/ r.kind = "won")
           /\ playerNeedsReset' = r.reset
    /\ pc' = "finish"
    /\ UNCHANGED <<currentEjectionMultiplier, lastClickTime, lastEjectionDecayTime,
                   currentGameSpeed, now, lastTime, dt, ticks, ejects, collisionLog, pairLog>>

\* effectiveCenter = sun || (gameWon ? player : null): its index, 0 for null
EffectiveCenter(bodies, won) ==
    IF FindSun(bodies) # 0 THEN FindSun(bodies)
    ELSE IF won THEN FindPlayer(bodies) ELSE 0

\* the bodies updatePhysics computes orbit parameters for
OrbitBodies(bodies, won) ==
    { i \in 1..Len(bodies) :
        /\ EffectiveCenter(bodies, won) # 0
        /\ i # EffectiveCenter(bodies, won)
        /\ ~bodies[i].isSpark
        /\ bodies[i].mass > 0 }

\* calculateOrbitParameters: mu = G * (effectiveGravMass + body.mass), kept
\* as its two kinds of terms, which differ by twenty orders of magnitude:
\* grav is G times the gravitational masses (the unit of SunGravMass),
\* raw the sum of the raw masses (in SPARK_MASS, still to be multiplied by G)
OrbitMu(body, center, bodies, blend) ==
    LET p == FindPlayer(bodies)
    IN  IF center.isSun
        THEN [grav |-> MulDiv(G_SUN_GRAVITATIONAL_MASS, One - blend, One)
                       + (IF p # 0 /\ blend > 0
                          THEN MulDiv(PlayerGravMass(bodies[p].mass), blend, One)
                          ELSE 0),
              raw |-> body.mass]
        ELSE IF center.isPlayer /\ center.isGravitationalCenter
        THEN [grav |-> PlayerGravMass(center.mass), raw |-> body.mass]
        ELSE [grav |-> 0, raw |-> center.mass + body.mass]

\* updatePhysics, the rest of the tick: orbit parameters, camera and warning
\* (read-only for the state of the model), then decayEjectionMultiplier()
Finish ==
    /\ pc = "finish"
    /\ IF DecayDue(now, lastClickTime, lastEjectionDecayTime)
       THEN /\ currentEjectionMultiplier' = DecayedMultiplier(currentEjectionMultiplier)
            /\ lastEjectionDecayTime' = now
       ELSE UNCHANGED <<currentEjectionMultiplier, lastEjectionDecayTime>>
    /\ pc' = "idle"
    /\ UNCHANGED <<celestialBodies, gravityBlendFactor, sunAbsorptionProgress, gameWon,
                   playerIsGravitationalCenter, sunCurrentGameMass, lastClickTime,
                   playerNeedsReset, currentGameSpeed, now, lastTime, dt, ticks, ejects,
                   collisionLog, pairLog>>

Next ==
    \/ Elapse
    \/ HandleKeyDown
    \/ HandleKeyUp
    \/ EjectMass
    \/ GameLoop
    \/ Gravity
    \/ Positions
    \/ Collisions
    \/ ResetPlayer
    \/ SunAbsorption
    \/ Finish

Spec == Init /\ [][Next]_vars

\* ----------------------------------------------------- ejectMass on its own
\* the inputs of ejectMass: the player's mass, the multiplier the last click
\* left (in hundredths) and how long ago that click was (ms)
EjectMasses ==
    { MIN_PLAYER_MASS, MIN_PLAYER_MASS + 1, MIN_PLAYER_MASS + 200,
      MIN_PLAYER_MASS + 450, MIN_PLAYER_MASS * 2 - 1, MIN_PLAYER_MASS * 2,
      PLAYER_INITIAL_MASS, PLAYER_INITIAL_MASS * 80 }
EjectMultipliers == { 100, 300, 2700, 8100, MAX_EJECTION_MULTIPLIER * 100 }
ClickGaps == { 0, QUICK_CLICK_THRESHOLD, QUICK_CLICK_THRESHOLD + 1 }

\* a session in which a frame is due and the mouse is clicked
InitEject ==
    /\ \E m \in EjectMasses :
          celestialBodies =
            << CelestialBody(0, 0, 0, 0, SUN_GAME_MASS, FALSE, TRUE, FALSE, 0),
               SessionBody(<<0, -350, 1381, 0, m>>, TRUE) >>
    /\ \E k \in EjectMultipliers : currentEjectionMultiplier = k
    /\ \E g \in ClickGaps : lastClickTime = StartTime + 16 - g
    /\ lastEjectionDecayTime = 0
    /\ sunCurrentGameMass = SUN_GAME_MASS
    /\ sunAbsorptionProgress = 0
    /\ gravityBlendFactor = 0
    /\ gameWon = FALSE
    /\ playerIsGravitationalCenter = FALSE
    /\ playerNeedsReset = FALSE
    /\ currentGameSpeed = BASE_GAME_SPEED
    /\ now = StartTime + 16
    /\ lastTime = StartTime
    /\ dt = 0
    /\ pc = "idle"
    /\ ticks = 0
    /\ ejects = 0
    /\ collisionLog = << >>
    /\ pairLog = NoPass

\* the pause between a click and the next one, with no frame in between
ClickPause ==
    /\ pc = "idle"
    /\ lastClickTime = now
    /\ ejects < MaxEjects
    /\ \E g \in ClickGaps \ {0} : now' = now + g
    /\ UNCHANGED <<celestialBodies, gravityBlendFactor, sunAbsorptionProgress, gameWon,
                   playerIsGravitationalCenter, sunCurrentGameMass,
                   currentEjectionMultiplier, lastClickTime, lastEjectionDecayTime,
                   playerNeedsReset, currentGameSpeed, lastTime, dt, pc, ticks,
                   ejects, collisionLog, pairLog>>

NextEject ==
    \/ EjectMass
    \/ ClickPause

SpecEject == InitEject /\ [][NextEject]_vars

\* ------------------------------------- decayEjectionMultiplier on its own
\* the multiplier the last click left (in hundredths), how long ago that
\* click and the last decay were (ms), and the time between two ticks (ms)
DecayMultipliers == { 110, 300 }
DecayClickGaps == { 0, QUICK_CLICK_THRESHOLD + 1 }
DecayGaps == { 100, 10016 }
DecayFrames == { 200, 400 }

\* a session after its last click
InitDecay ==
    /\ celestialBodies =
         << CelestialBody(0, 0, 0, 0, SUN_GAME_MASS, FALSE, TRUE, FALSE, 0),
            SessionBody(<<0, -350, 1381, 0, PLAYER_INITIAL_MASS>>, TRUE) >>
    /\ \E k \in DecayMultipliers : currentEjectionMultiplier = k
    /\ \E g \in DecayClickGaps : lastClickTime = StartTime + 16 - g
    /\ \E g \in DecayGaps : lastEjectionDecayTime = StartTime + 16 - g
    /\ sunCurrentGameMass = SUN_GAME_MASS
    /\ sunAbsorptionProgress = 0
    /\ gravityBlendFactor = 0
    /\ gameWon = FALSE
    /\ playerIsGravitationalCenter = FALSE
    /\ playerNeedsReset = FALSE
    /\ currentGameSpeed = BASE_GAME_SPEED
    /\ now = StartTime + 16
    /\ lastTime = StartTime + 16
    /\ dt = 0
    /\ pc = "idle"
    /\ ticks = 0
    /\ ejects = 0
    /\ collisionLog = << >>
    /\ pairLog = NoPass

\* a frame without a click: the tick up to the call of decayEjectionMultiplier
QuietFrame ==
    /\ pc = "idle"
    /\ ticks < MaxDecayTicks
    /\ \E d \in DecayFrames : now' = now + d
    /\ lastTime' = now'
    /\ dt' = MaxDt
    /\ ticks' = ticks + 1
    /\ pc' = "finish"
    /\ UNCHANGED <<celestialBodies, gravityBlendFactor, sunAbsorptionProgress, gameWon,
                   playerIsGravitationalCenter, sunCurrentGameMass,
                   currentEjectionMultiplier, lastClickTime, lastEjectionDecayTime,
                   playerNeedsReset, currentGameSpeed, ejects, collisionLog, pairLog>>

NextDecay ==
    \/ QuietFrame
    \/ Finish

\* requestAnimationFrame keeps the frames coming
SpecDecay ==
    InitDecay /\ [][NextDecay]_vars /\ WF_vars(QuietFrame) /\ WF_vars(Finish)

\* ---------------------------------------------- sessions in which sparks fly
\* the player (x, y, vx, vy) when the sparks are in flight, on its orbit
SparkPlayers == { <<0, -350, 1381, 0>>, <<350, 0, 0, 1381>> }
\* how long ago the sparks were made (ms), and the time between two frames (ms)
SparkAges == { 0, 1000, SPARK_LIFESPAN - 1 }
SparkFrames == { 400, 1700 }

\* a session after an ejection has left one or two sparks next to the player
InitSparks ==
    /\ now = StartTime + 1700
    /\ lastTime = StartTime + 1700
    /\ \E q \in SparkPlayers : \E a1 \in SparkAges : \E a2 \in SparkAges :
       \E two \in BOOLEAN :
          LET sun == CelestialBody(0, 0, 0, 0, SUN_GAME_MASS, FALSE, TRUE, FALSE, 0)
              player == SessionBody(<<q[1], q[2], q[3], q[4], PLAYER_INITIAL_MASS>>, TRUE)
              s1 == CelestialBody(q[1] + 40, q[2], q[3] + 2000, q[4], SPARK_MASS,
                                  FALSE, FALSE, TRUE, now - a1)
              s2 == CelestialBody(q[1] + 40, q[2], q[3] + 2000, q[4] + 300, SPARK_MASS,
                                  FALSE, FALSE, TRUE, now - a2)
          IN  /\ two \/ a2 = a1
              /\ celestialBodies = (IF two THEN << sun, player, s1, s2 >>
                                    ELSE << sun, player, s1 >>)
    /\ sunCurrentGameMass = SUN_GAME_MASS
    /\ sunAbsorptionProgress = 0
    /\ gravityBlendFactor = 0
    /\ gameWon = FALSE
    /\ playerIsGravitationalCenter = FALSE
    /\ currentEjectionMultiplier = 100
    /\ lastClickTime = 0
    /\ lastEjectionDecayTime = 0
    /\ playerNeedsReset = FALSE
    /\ currentGameSpeed = BASE_GAME_SPEED
    /\ dt = 0
    /\ pc = "idle"
    /\ ticks = 0
    /\ ejects = 0
    /\ collisionLog = << >>
    /\ pairLog = NoPass

\* time passes until the next frame
SparkFrame ==
    /\ pc = "idle"
    /\ now = lastTime
    /\ ticks < MaxSparkTicks
    /\ \E d \in SparkFrames : now' = now + d
    /\ UNCHANGED <<celestialBodies, gravityBlendFactor, sunAbsorptionProgress, gameWon,
                   playerIsGravitationalCenter, sunCurrentGameMass,
                   currentEjectionMultiplier, lastClickTime, lastEjectionDecayTime,
                   playerNeedsReset, currentGameSpeed, lastTime, dt, pc, ticks,
                   ejects, collisionLog, pairLog>>

NextSparks ==
    \/ SparkFrame
    \/ GameLoop
    \/ Gravity
    \/ Positions
    \/ Collisions
    \/ SunAbsorption
    \/ Finish

\* requestAnimationFrame keeps the frames coming; no tick of these sessions
\* asks for a reset
SpecSparks == InitSparks /\ [][NextSparks]_vars /\ WF_vars(NextSparks)

\* ------------------------------------- sessions in which the sun is absorbed
\* the sun's remaining game mass, the lag of the blend behind the progress,
\* the game speed and the player (x, y, vx, vy, mass), which is eligible
AbsorbSessions ==
    { \* the sun almost absorbed, the player on a circular orbit inside the range
      [gameMass |-> SUN_GAME_MASS \div 20, lag |-> 0, speed |-> BASE_GAME_SPEED,
       player |-> <<0, -300, 333, 0, 25000000>>],
      \* the same with Space held
      [gameMass |-> SUN_GAME_MASS \div 20, lag |-> 0, speed |-> FAST_GAME_SPEED,
       player |-> <<0, -300, 333, 0, 25000000>>],
      \* half of the sun absorbed, the player circling inside the range
      [gameMass |-> SUN_GAME_MASS \div 2, lag |-> 0, speed |-> FAST_GAME_SPEED,
       player |-> <<0, -300, 1054, 0, 17000000>>],
      \* the full sun, the player on a circular orbit inside the range
      [gameMass |-> SUN_GAME_MASS, lag |-> 0, speed |-> FAST_GAME_SPEED,
       player |-> <<0, -400, 1291, 0, 8000000>>],
      \* half of the sun absorbed, the player long since on a circular orbit
      \* outside the range
      [gameMass |-> SUN_GAME_MASS \div 2, lag |-> One, speed |-> BASE_GAME_SPEED,
       player |-> <<0, -900, 861, 0, 17000000>>] }
\* the time between two frames (ms)
AbsorbFrame == 100

\* a session with the sun and an eligible player
InitAbsorb ==
    /\ now = StartTime
    /\ lastTime = StartTime
    /\ \E s \in AbsorbSessions :
          /\ celestialBodies =
               << CelestialBody(0, 0, 0, 0, s.gameMass, FALSE, TRUE, FALSE, 0),
                  SessionBody(s.player, TRUE) >>
          /\ sunCurrentGameMass = s.gameMass
          /\ sunAbsorptionProgress = Progress(s.gameMass)
          /\ gravityBlendFactor = Max(0, Min(One, Progress(s.gameMass)) - s.lag)
          /\ currentGameSpeed = s.speed
    /\ gameWon = FALSE
    /\ playerIsGravitationalCenter = FALSE
    /\ currentEjectionMultiplier = 100
    /\ lastClickTime = 0
    /\ lastEjectionDecayTime = 0
    /\ playerNeedsReset = FALSE
    /\ dt = 0
    /\ pc = "idle"
    /\ ticks = 0
    /\ ejects = 0
    /\ collisionLog = << >>
    /\ pairLog = NoPass

\* time passes until the next frame
AbsorbFrameStep ==
    /\ pc = "idle"
    /\ now = lastTime
    /\ ticks < MaxAbsorbTicks
    /\ now' = now + AbsorbFrame
    /\ UNCHANGED <<celestialBodies, gravityBlendFactor, sunAbsorptionProgress, gameWon,
                   playerIsGravitationalCenter, sunCurrentGameMass,
                   currentEjectionMultiplier, lastClickTime, lastEjectionDecayTime,
                   playerNeedsReset, currentGameSpeed, lastTime, dt, pc, ticks,
                   ejects, collisionLog, pairLog>>

NextAbsorb ==
    \/ AbsorbFrameStep
    \/ GameLoop
    \/ Gravity
    \/ Positions
    \/ Collisions
    \/ SunAbsorption
    \/ Finish

\* requestAnimationFrame keeps the frames coming and a tick that has begun
\* runs to its end; no tick of these sessions asks for a reset. Gravity and
\* SunAbsorption are enabled exactly at their stage and each of their steps
\* leaves it, so their weak fairness is that the tick does not stay there.
SpecAbsorb ==
    /\ InitAbsorb /\ [][NextAbsorb]_vars
    /\ WF_vars(AbsorbFrameStep) /\ WF_vars(GameLoop)
    /\ []<>(pc # "gravity")
    /\ WF_vars(Positions) /\ WF_vars(Collisions)
    /\ []<>(pc # "absorption")
    /\ WF_vars(Finish)

\* --------------------------------------------- the collision pass on its own
\* the sun's remaining game mass when the pass begins; 0: the sun has been
\* absorbed and the player is the gravitational center
CollideSunMasses == { SUN_GAME_MASS, 200000, 0 }
CollidePlayerMasses == { PLAYER_INITIAL_MASS, 10500 }
CollideDts == { 50, 100, 500 }
\* where a body is: inside the sun and the player, or away from both
CollidePlaces == { -20, 900 }
\* the bodies that meet: sparks, bodies past the immunity window, and bodies
\* ejected less than EJECTION_COLLISION_DELAY ago
CollideKinds ==
    { [mass |-> SPARK_MASS, isSpark |-> TRUE, age |-> 100],
      [mass |-> 10, isSpark |-> FALSE, age |-> 11700],
      [mass |-> 100, isSpark |-> FALSE, age |-> 11700],
      [mass |-> 700, isSpark |-> FALSE, age |-> 11700],
      [mass |-> 300000, isSpark |-> FALSE, age |-> 11700],
      [mass |-> 700, isSpark |-> FALSE, age |-> 100],
      [mass |-> 300000, isSpark |-> FALSE, age |-> 100] }

\* the k-th body after the player
CollideBody(kind, place, k, t) ==
    CelestialBody(k, place, 100 * k, 50, kind.mass, FALSE, FALSE, kind.isSpark,
                  t - kind.age)

\* a tick that has reached the collision stage
InitCollide ==
    /\ now = StartTime + 1700
    /\ lastTime = StartTime + 1700
    /\ \E d \in CollideDts : dt = d
    /\ \E sm \in CollideSunMasses : \E pm \in CollidePlayerMasses :
       \E k1 \in CollideKinds : \E p1 \in CollidePlaces :
       \E more \in BOOLEAN : \E k2 \in CollideKinds : \E p2 \in CollidePlaces :
          LET won == sm = 0
              sun == CelestialBody(0, 0, 0, 0, sm, FALSE, TRUE, FALSE, 0)
              player == [CelestialBody(0, -30, 1291, 0,
                                       IF won THEN pm + SUN_GAME_MASS ELSE pm,
                                       TRUE, FALSE, FALSE, 0)
                           EXCEPT !.isGravitationalCenter = won]
              others == IF more
                        THEN << CollideBody(k1, p1, 1, now), CollideBody(k2, p2, 2, now) >>
                        ELSE << CollideBody(k1, p1, 1, now) >>
          IN  /\ more \/ (k2 = k1 /\ p2 = p1)
              /\ celestialBodies = (IF won THEN << player >> ELSE << sun, player >>) \o others
              /\ sunCurrentGameMass = sm
              /\ sunAbsorptionProgress = (IF won THEN One - One \div 100 ELSE Progress(sm))
              /\ gravityBlendFactor = (IF won THEN One ELSE Progress(sm))
              /\ gameWon = won
              /\ playerIsGravitationalCenter = won
    /\ currentEjectionMultiplier = 100
    /\ lastClickTime = 0
    /\ lastEjectionDecayTime = 0
    /\ playerNeedsReset = FALSE
    /\ currentGameSpeed = BASE_GAME_SPEED
    /\ pc = "collisions"
    /\ ticks = 1
    /\ ejects = 0
    /\ collisionLog = << >>
    /\ pairLog = NoPass

NextCollide == Collisions

SpecCollide == InitCollide /\ [][NextCollide]_vars

\* ------------------------------------------------- the gravity stage on its own
\* where the player and an ordinary body are when the gravity stage begins:
\* apart, and at exactly the position of a source
GravityPlayerSpots == { <<0, -350>>, <<200, 0>>, <<0, 0>> }
GravityBodySpots == { <<0, 0>>, <<0, -350>>, <<200, 0>>, <<-300, 400>> }
GravityBlends == { 0, One \div 2 }

\* a tick that has reached the gravity stage
InitGravity ==
    /\ \E ps \in GravityPlayerSpots : \E bs \in GravityBodySpots :
          celestialBodies =
            << CelestialBody(0, 0, 0, 0, SUN_GAME_MASS, FALSE, TRUE, FALSE, 0),
               SessionBody(<<ps[1], ps[2], 1291, 0, 8000000>>, TRUE),
               SessionBody(<<bs[1], bs[2], 0, 900, 30000>>, FALSE) >>
    /\ \E b \in GravityBlends :
          /\ gravityBlendFactor = b
          /\ sunAbsorptionProgress = b
          /\ sunCurrentGameMass = SUN_GAME_MASS - b
    /\ \E d \in ElapseChoices : dt = Min(d, MaxDt)
    /\ \E v \in {BASE_GAME_SPEED, FAST_GAME_SPEED} : currentGameSpeed = v
    /\ gameWon = FALSE
    /\ playerIsGravitationalCenter = FALSE
    /\ currentEjectionMultiplier = 100
    /\ lastClickTime = 0
    /\ lastEjectionDecayTime = 0
    /\ playerNeedsReset = FALSE
    /\ now = StartTime + 1700
    /\ lastTime = StartTime + 1700
    /\ pc = "gravity"
    /\ ticks = 1
    /\ ejects = 0
    /\ collisionLog = << >>
    /\ pairLog = NoPass

NextGravity ==
    \/ Gravity
    \/ Positions

SpecGravity == InitGravity /\ [][NextGravity]_vars

\* ------------------------------------------------------------- type checks
TypeOK ==
    /\ pc \in {"idle", "gravity", "positions", "collisions", "reset", "absorption", "finish"}
    /\ gameWon \in BOOLEAN /\ playerNeedsReset \in BOOLEAN
    /\ currentGameSpeed \in {BASE_GAME_SPEED, FAST_GAME_SPEED}
    /\ \A i \in 1..Len(celestialBodies) : celestialBodies[i].mass >= 0

\* no body's position or velocity is NaN
AllFinite == \A i \in 1..Len(celestialBodies) : ~celestialBodies[i].nan

\* =================================================================== claims
\* the indices of the registry's bodies of each kind
Centers == { i \in 1..Len(celestialBodies) : celestialBodies[i].isGravitationalCenter }
Suns == { i \in 1..Len(celestialBodies) : celestialBodies[i].isSun }
Players == { i \in 1..Len(celestialBodies) : celestialBodies[i].isPlayer }
Sparks == { i \in 1..Len(celestialBodies) : celestialBodies[i].isSpark }
Ordinary ==
    { i \in 1..Len(celestialBodies) :
        /\ ~celestialBodies[i].isSun
        /\ ~celestialBodies[i].isPlayer
        /\ ~celestialBodies[i].isSpark }

\* C1: in every state exactly one body of the registry has
\* isGravitationalCenter = true: the sun while gameWon is false, the player
\* once gameWon is true
C1_OneGravitationalCenter ==
    /\ Cardinality(Centers) = 1
    /\ \A i \in Centers :
          IF gameWon THEN celestialBodies[i].isPlayer ELSE celestialBodies[i].isSun

\* the game is won, the tick of the win is over and the player is the center
C1_Witness ==
    /\ gameWon
    /\ pc = "idle"
    /\ \E i \in Centers : celestialBodies[i].isPlayer

\* the state the win leaves: no sun, the blend at 1, the player the only center
WonState ==
    /\ gameWon
    /\ Suns = {}
    /\ gravityBlendFactor = One
    /\ Cardinality(Centers) = 1
    /\ \A i \in Centers : celestialBodies[i].isPlayer

\* C2: once gameWon is true, in every later state the registry holds no sun,
\* gravityBlendFactor is 1 and the player is the only gravitational center
C2_WinIsTerminal == [](gameWon => []WonState)

\* a tick after the win has gone through gravity and integration
C2_Witness == gameWon /\ pc = "collisions" /\ WonState

\* the rate governing the blend in the tick whose checkSunAbsorption is about
\* to run, in thousandths per second: 0.5 for a player that is not eligible,
\* 0.3 for one out of range, the absorption rate for one that absorbs
BlendRate ==
    LET player == Player
        sun == Sun
        dist == Dist10(player, sun)
        touch == TouchDist(player, sun, sunCurrentGameMass)
    IN  IF gameWon \/ Players = {} \/ Suns = {} THEN 0
        ELSE IF ~CanAbsorb(player.mass) THEN 500
        ELSE IF dist > AbsorptionRange(touch) THEN 300
        ELSE AbsorptionRate(dist, touch, player.mass)

\* C3: between the start and the end of a tick gravityBlendFactor changes by
\* at most rate * dt, rate being the rate that governs the tick; it never
\* jumps, neither when the player comes back into range nor at the win
C3_BlendNeverJumps ==
    [][pc = "absorption" =>
         Abs(gravityBlendFactor' - gravityBlendFactor)
            <= MulDiv(One, BlendRate * dt, 1000000) + 1]_vars

\* C4: every pair resolved by checkCollisions keeps the sum of its two masses;
\* the transfer is between 0 and the small body's mass and goes from the body
\* of lower mass to the body of higher mass
C4_PairConservesMass ==
    \A k \in 1..Len(collisionLog) :
        LET e == collisionLog[k]
        IN  /\ e.bigAfter + e.smallAfter = e.big.mass + e.small.mass
            /\ 0 <= e.transfer /\ e.transfer <= e.small.mass
            /\ e.small.mass <= e.big.mass
            /\ e.bigAfter = e.big.mass + e.transfer
            /\ e.smallAfter = e.small.mass - e.transfer

\* checkCollisions has resolved a pair of which the small body kept some mass
C4_Witness ==
    \E k \in 1..Len(collisionLog) :
        /\ collisionLog[k].transfer > 0
        /\ collisionLog[k].smallAfter > 0
        /\ collisionLog[k].bigAfter > collisionLog[k].big.mass

\* C5: a player of mass >= MIN_PLAYER_MASS has mass >= MIN_PLAYER_MASS after
\* ejectMass, for every multiplier and after every sequence of eject requests
C5_EjectKeepsFloor ==
    \A i \in Players : celestialBodies[i].mass >= MIN_PLAYER_MASS

\* an eject request has just lowered its ejection to leave MIN_PLAYER_MASS
C5_Witness ==
    /\ lastClickTime = now
    /\ ejects > 0
    /\ \E i \in Players : celestialBodies[i].mass = MIN_PLAYER_MASS

\* C6: once playerNeedsReset is true no later stage of the tick runs and no
\* stage of the next tick runs before resetPlayer: the only step taken with
\* the flag set is the call of resetPlayer
C6_ResetShortCircuits == [][playerNeedsReset => pc = "reset"]_vars

\* the session resetPlayer leaves
FreshSession ==
    /\ Cardinality(Suns) = 1
    /\ \A i \in Suns : /\ celestialBodies[i].isGravitationalCenter
                       /\ celestialBodies[i].mass = SUN_GAME_MASS
    /\ Cardinality(Players) = 1
    /\ \A i \in Players : /\ ~celestialBodies[i].isGravitationalCenter
                          /\ celestialBodies[i].mass = PLAYER_INITIAL_MASS
    /\ Cardinality(Ordinary) = INIT_NUM_BODIES
    /\ Sparks = {}
    /\ gameWon = FALSE
    /\ gravityBlendFactor = 0
    /\ sunAbsorptionProgress = 0
    /\ sunCurrentGameMass = SUN_GAME_MASS
    /\ currentEjectionMultiplier = 100
    /\ playerNeedsReset = FALSE

\* C7: from whatever state the reset is requested in, resetPlayer leaves a
\* fresh session: one sun (the center, of mass SUN_GAME_MASS), one player (of
\* mass PLAYER_INITIAL_MASS, not the center), INIT_NUM_BODIES ordinary bodies,
\* no spark, and the session's variables at their initial values
C7_ResetLeavesFreshSession == [][pc = "reset" => FreshSession']_vars

\* resetPlayer has just rebuilt the session: the player of the fresh session
\* was created after the start
C7_Witness ==
    /\ FreshSession
    /\ pc = "idle"
    /\ \E i \in Players : celestialBodies[i].creationTime > StartTime

C9_SunTouchIsLethal ==
    [][(pc = "absorption" /\ ~gameWon /\ Players # {} /\ Suns # {}) =>
         LET dist == Dist10(Player, Sun)
             touch == Radius(Player, sunCurrentGameMass) + Radius(Sun, sunCurrentGameMass)
         IN  /\ (Player.mass * 10 < 4 * SUN_GAME_MASS /\ dist * 10 < touch * 8)
                   => playerNeedsReset'
             /\ Player.mass * 10 >= 4 * SUN_GAME_MASS
                   => playerNeedsReset' = playerNeedsReset]_vars

\* checkSunAbsorption has just flagged an underweight player inside the sun
C9_Witness == playerNeedsReset /\ pc = "finish" /\ ~gameWon

\* C10: gravityBlendFactor and sunAbsorptionProgress are in [0, 1] in every
\* reachable state
C10_BlendAndProgressInRange ==
    /\ 0 <= gravityBlendFactor /\ gravityBlendFactor <= One
    /\ 0 <= sunAbsorptionProgress /\ sunAbsorptionProgress <= One

\* the blend has decayed below the progress and both are strictly inside
C10_Witness ==
    /\ 0 < gravityBlendFactor
    /\ gravityBlendFactor < sunAbsorptionProgress
    /\ sunAbsorptionProgress < One
    /\ ticks > 0

\* the bodies that stayed in the registry for the whole last pass of
\* checkCollisions, by the index they had when it began
Stayed == { pairLog.ids[k] : k \in 1..Len(pairLog.ids) }

\* how often the last pass distance-tested the pair {a, b}
TimesTested(a, b) ==
    Cardinality({ k \in 1..Len(pairLog.tested) :
                    pairLog.tested[k] \in { <<a, b>>, <<b, a>> } })

\* C11: in a call of checkCollisions that requests no reset, every pair of
\* bodies that both stay in the registry and that no exclusion rule excludes
\* is distance-tested exactly once, also when bodies are removed in the pass
C11_EveryPairTestedOnce ==
    ~pairLog.reset =>
        \A a \in Stayed : \A b \in Stayed :
            (a < b /\ ~Excluded(pairLog.start[a], pairLog.start[b], pairLog.t))
                => TimesTested(a, b) = 1

\* the pull of the player alone, as a single source of effective mass
\* player.mass * GRAVITY_CROSSOVER_MULTIPLIER, on the body at index i
PulledOnceByPlayer(i) ==
    Pull(celestialBodies[i], Player, PlayerGravMass(Player.mass),
         GameDt(dt, currentGameSpeed))

\* C12: in every tick after the win the velocity change of each body other
\* than the player is the pull of one source of effective mass
\* player.mass * GRAVITY_CROSSOVER_MULTIPLIER: applied once per body per tick
C12_PostWinPullOnce ==
    [][(pc = "gravity" /\ gameWon /\ Suns = {} /\ Players # {}) =>
         \A i \in 1..Len(celestialBodies) :
            IF i \in Players THEN celestialBodies'[i] = celestialBodies[i]
            ELSE celestialBodies'[i] = PulledOnceByPlayer(i)]_vars

\* what the gravity stage makes of the body at index i when the sun and the
\* player are both in the registry and the blend is b: the sun's pull of
\* effective mass SUN_GRAVITATIONAL_MASS * (1 - b) on every body but the sun
\* if b < 1, then the player's pull of effective mass
\* player.mass * GRAVITY_CROSSOVER_MULTIPLIER * b on every body but the player
\* and the sun if b > 0
PulledBySunAndPlayer(i) ==
    LET b == gravityBlendFactor
        gdt == GameDt(dt, currentGameSpeed)
        body == celestialBodies[i]
        bySun == IF b < One /\ i \notin Suns
                 THEN Pull(body, Sun, MulDiv(G_SUN_GRAVITATIONAL_MASS, One - b, One), gdt)
                 ELSE body
    IN  IF b > 0 /\ i \notin Players /\ i \notin Suns
        THEN Pull(bySun, Player,
                  MulDiv(MulDiv(G_SUN_GRAVITATIONAL_MASS, Player.mass, SUN_GAME_MASS), b, One),
                  gdt)
        ELSE bySun

\* C13: with the sun and the player present and the blend at b, the sun pulls
\* every body but itself iff b < 1 and the player pulls every body but itself
\* and the sun iff b > 0; gravity leaves the sun's velocity alone
C13_DualSourceGravity ==
    [][(pc = "gravity" /\ Suns # {} /\ Players # {}) =>
         /\ \A i \in 1..Len(celestialBodies) :
               celestialBodies'[i] = PulledBySunAndPlayer(i)
         /\ \A i \in Suns : celestialBodies'[i] = celestialBodies[i]]_vars

\* the gravity stage has run with both sources active on an ordinary body
C13_Witness ==
    /\ pc = "positions"
    /\ 0 < gravityBlendFactor /\ gravityBlendFactor < One
    /\ Suns # {} /\ Players # {} /\ Ordinary # {}

\* C14: in the gravity stage the divisor of G * effectiveMass / distance^2 is
\* strictly positive for every body and every active source, also for a body
\* exactly at the source's position, and the body's velocity stays finite
C14_GravityDivisorPositive ==
    [][pc = "gravity" =>
         /\ \A i \in 1..Len(celestialBodies) :
               /\ (gravityBlendFactor < One /\ i \notin Suns /\ Suns # {})
                     => GravityDivisor(celestialBodies[i], Sun) > 0
               /\ (gravityBlendFactor > 0 /\ i \notin Suns /\ i \notin Players
                   /\ Players # {})
                     => GravityDivisor(celestialBodies[i], Player) > 0
         /\ \A i \in 1..Len(celestialBodies') : ~celestialBodies'[i].nan]_vars

\* an ordinary body (no spark, sun or player) inside the immunity window
ImmuneOrdinary(b, t) ==
    /\ ~b.isSpark /\ ~b.isSun /\ ~b.isPlayer
    /\ t - b.creationTime < EJECTION_COLLISION_DELAY

\* the excluded pairs: player and spark; two sparks; player and sun; an immune
\* ordinary body with the player or with a spark; two immune bodies
ListedExclusion(b1, b2, t) ==
    \/ (b1.isPlayer /\ b2.isSpark) \/ (b2.isPlayer /\ b1.isSpark)
    \/ (b1.isSpark /\ b2.isSpark)
    \/ (b1.isPlayer /\ b2.isSun) \/ (b2.isPlayer /\ b1.isSun)
    \/ (ImmuneOrdinary(b1, t) /\ (b2.isPlayer \/ b2.isSpark))
    \/ (ImmuneOrdinary(b2, t) /\ (b1.isPlayer \/ b1.isSpark))
    \/ (ImmuneOrdinary(b1, t) /\ ImmuneOrdinary(b2, t))

\* the body that began the pass at index a is in the registry, as it was
Untouched(a) ==
    \E k \in 1..Len(pairLog.ids) :
        pairLog.ids[k] = a /\ pairLog.end[k] = pairLog.start[a]

C16_CenterAndSparkSkipped ==
    /\ \A k \in 1..Len(collisionLog) :
          /\ ~collisionLog[k].small.isGravitationalCenter
          /\ ~collisionLog[k].big.isSpark
    /\ \A k \in 1..Len(pairLog.ids) :
          LET before == pairLog.start[pairLog.ids[k]]
              after == pairLog.end[k]
          IN  /\ before.isSpark => after.mass <= before.mass
              /\ before.isGravitationalCenter => after.mass >= before.mass
    /\ \A a \in 1..Len(pairLog.start) :
          pairLog.start[a].isGravitationalCenter => a \in Stayed

\* a pass has tested an overlapping pair whose lower-mass body is the sun
C16_Witness ==
    /\ pc # "collisions"
    /\ \E k \in 1..Len(pairLog.tested) :
          LET x == pairLog.start[pairLog.tested[k][1]]
              y == pairLog.start[pairLog.tested[k][2]]
          IN  /\ y.isSun /\ y.mass < x.mass
              /\ Overlap(x, y, sunCurrentGameMass)

\* small's whole mass if it is a spark, else
\* min(small.mass, small.mass * MASS_TRANSFER_PERCENT_PER_SEC * dt)
StatedTransfer(small, d) ==
    IF small.isSpark THEN small.mass
    ELSE Min(small.mass, MulDiv(small.mass, MASS_TRANSFER_PERCENT_PER_SEC * d, 1000))

\* the pass began with bodies of mass 100 and 10 overlapping each other, away
\* from the sun and the player, and ran with dt = 0.5
HundredMeetsTen ==
    /\ pairLog.d = 500
    /\ Len(pairLog.start) = 4
    /\ pairLog.start[3].mass = 100 /\ pairLog.start[4].mass = 10
    /\ pairLog.start[3].y = 900 /\ pairLog.start[4].y = 900

\* C17: the transfer of a resolved pair is small's whole mass if small is a
\* spark, else min(small.mass, small.mass * MASS_TRANSFER_PERCENT_PER_SEC * dt);
\* small is removed iff it is not the player and its mass after the transfer
\* is at most MIN_BODY_MASS; masses 100 and 10 with dt = 0.5 become 110 and 0
\* and the small body is removed
C17_TransferAndRemoval ==
    /\ \A k \in 1..Len(collisionLog) :
          LET e == collisionLog[k]
          IN  /\ e.transfer = StatedTransfer(e.small, pairLog.d)
              /\ e.removed <=> (~e.small.isPlayer /\ e.smallAfter <= MIN_BODY_MASS)
    /\ Len(pairLog.start) - Len(pairLog.end) =
          Cardinality({ k \in 1..Len(collisionLog) : collisionLog[k].removed })
    /\ HundredMeetsTen =>
          /\ Len(collisionLog) = 1
          /\ collisionLog[1].transfer = 10
          /\ collisionLog[1].bigAfter = 110 /\ collisionLog[1].smallAfter = 0
          /\ Len(pairLog.end) = 3 /\ pairLog.end[3].mass = 110

\* the bodies of mass 100 and 10 have met
C17_Witness ==
    /\ pc # "collisions"
    /\ HundredMeetsTen
    /\ Len(pairLog.end) = 3

\* checkSunAbsorption is about to run with the sun and the player in the
\* registry and the game not won
AbsorptionRuns ==
    pc = "absorption" /\ ~gameWon /\ Players # {} /\ Suns # {}

\* the player is farther from the sun than touchDist * SUN_ABSORPTION_RANGE_MULTIPLIER
OutOfRange ==
    Dist10(Player, Sun) * 10
        > TouchDist(Player, Sun, sunCurrentGameMass) * SUN_ABSORPTION_RANGE_MULTIPLIER

\* min(remaining, remaining * rate * scaledDeltaTime) for the state the step
\* begins in
StatedAbsorption ==
    LET rate == AbsorptionRate(Dist10(Player, Sun),
                               TouchDist(Player, Sun, sunCurrentGameMass), Player.mass)
    IN  Min(sunCurrentGameMass,
            MulDiv(MulDiv(sunCurrentGameMass, rate, 1000),
                   GameDt(dt, currentGameSpeed), 10000))

\* C18: every checkSunAbsorption step conserves player.mass + remaining sun
\* game mass, the winning step included; the amount moved before the win
\* check is min(remaining, remaining * rate * scaledDeltaTime)
C18_AbsorptionConservesMass ==
    [][(pc = "absorption" /\ Players # {}) =>
         /\ Player'.mass + sunCurrentGameMass' = Player.mass + sunCurrentGameMass
         /\ (AbsorptionRuns /\ CanAbsorb(Player.mass) /\ ~OutOfRange) =>
               IF gameWon'
               THEN /\ sunCurrentGameMass' = 0
                    /\ sunAbsorptionProgress'
                          = Progress(sunCurrentGameMass - StatedAbsorption)
               ELSE sunCurrentGameMass' = sunCurrentGameMass - StatedAbsorption]_vars

\* an absorbing step has moved part of the full sun's game mass to the player
C18_Witness ==
    /\ pc = "finish" /\ ~gameWon
    /\ Players # {} /\ Suns # {}
    /\ Sun.mass = sunCurrentGameMass
    /\ sunCurrentGameMass < SUN_GAME_MASS
    /\ Player.mass + sunCurrentGameMass = 8000000 + SUN_GAME_MASS

\* C19: at every tick boundary
\* sunAbsorptionProgress = 1 - sunCurrentGameMass / SUN_GAME_MASS: before any
\* absorption, during absorption and after the win
C19_ProgressTracksMass ==
    pc = "idle" => sunAbsorptionProgress = Progress(sunCurrentGameMass)

\* gravityBlendFactor - tenths / 10 * dt, floored at 0
StatedDecay(tenths) ==
    Max(0, gravityBlendFactor - MulDiv(One, tenths * dt, 10000))

\* C20: in a tick where the player is not eligible, or is farther from the
\* sun than touchRadius * RangeMultiplier, checkSunAbsorption leaves
\* sunCurrentGameMass, the sun's mass, the progress and the player's mass and
\* velocity unchanged; the blend only moves toward 0: by 0.5 * dt when not
\* eligible, by 0.3 * dt when out of range, floored at 0
C20_NoAbsorptionOnlyDecay ==
    [][(AbsorptionRuns /\ (~CanAbsorb(Player.mass) \/ OutOfRange)) =>
         /\ sunCurrentGameMass' = sunCurrentGameMass
         /\ Sun'.mass = Sun.mass
         /\ sunAbsorptionProgress' = sunAbsorptionProgress
         /\ Player'.mass = Player.mass
         /\ Player'.vx = Player.vx /\ Player'.vy = Player.vy
         /\ gravityBlendFactor' <= gravityBlendFactor
         /\ gravityBlendFactor' =
               IF ~CanAbsorb(Player.mass) THEN StatedDecay(5) ELSE StatedDecay(3)]_vars

\* checkSunAbsorption has run with an eligible player out of range and has
\* lowered a blend that is still above 0
C20_Witness ==
    /\ pc = "finish" /\ ~gameWon /\ ~playerNeedsReset
    /\ Players # {} /\ Suns # {}
    /\ CanAbsorb(Player.mass) /\ OutOfRange
    /\ 0 < gravityBlendFactor
    /\ gravityBlendFactor < Min(One, sunAbsorptionProgress)

\* the mass of the ordinary bodies (no sun, player or spark) of a registry
RECURSIVE OrdinaryMass(_)
OrdinaryMass(bodies) ==
    IF bodies = << >> THEN 0
    ELSE (IF bodies[1].isSun \/ bodies[1].isPlayer \/ bodies[1].isSpark
          THEN 0 ELSE bodies[1].mass)
         + OrdinaryMass(Tail(bodies))

\* C21: every ejectMass call that lowers player.mass by ejectedMass > 0 adds
\* exactly one ordinary body of mass ejectedMass to the registry, so the
\* player's mass plus the mass of the ordinary bodies is unchanged
C21_EjectionKeepsMass ==
    [][(pc = "idle" /\ Players # {} /\ Player'.mass < Player.mass) =>
         /\ Cardinality(Ordinary') = Cardinality(Ordinary) + 1
         /\ \E i \in Ordinary' :
               /\ i > Len(celestialBodies)
               /\ celestialBodies'[i].mass = Player.mass - Player'.mass
         /\ Player'.mass + OrdinaryMass(celestialBodies')
               = Player.mass + OrdinaryMass(celestialBodies)]_vars

\* min(previous * growthRate, MaxEjectionMultiplier) within the quick-click
\* threshold of the previous ejection, 1 otherwise (in hundredths)
StatedMultiplier ==
    IF now - lastClickTime <= QUICK_CLICK_THRESHOLD
    THEN Min(currentEjectionMultiplier * EJECTION_GROWTH_RATE,
             MAX_EJECTION_MULTIPLIER * 100)
    ELSE 100

\* min(playerMass * basePercent * multiplier, playerMass * maxPercent),
\* lowered to playerMass - MIN_PLAYER_MASS if the player would go below the floor
StatedEjection(playerMass, mult) ==
    LET e == Min(MulDiv(playerMass, BASE_EJECTION_MASS_PERCENT * mult, 1000000),
                 playerMass \div 2)
    IN  IF playerMass - e < MIN_PLAYER_MASS THEN playerMass - MIN_PLAYER_MASS ELSE e

C23_MultiplierDecaysToOne ==
    /\ [][(pc = "finish" /\ currentEjectionMultiplier' # currentEjectionMultiplier) =>
            /\ now - lastClickTime > QUICK_CLICK_THRESHOLD
            /\ now - lastEjectionDecayTime > EJECTION_DECAY_INTERVAL
            /\ currentEjectionMultiplier' < currentEjectionMultiplier
            /\ currentEjectionMultiplier' =
                  Max(100, (currentEjectionMultiplier * EJECTION_DECAY_RATE) \div 100)]_vars
    /\ <>[](currentEjectionMultiplier = 100)

\* the multiplier a click left has decayed to 1
C23_Witness ==
    /\ pc = "idle"
    /\ currentEjectionMultiplier = 100
    /\ lastEjectionDecayTime > lastClickTime + QUICK_CLICK_THRESHOLD

\* a spark of age >= SPARK_LIFESPAN, or a body that is no player, sun, center
\* or spark and has mass < MIN_BODY_MASS
Expired(b, t) ==
    \/ (b.isSpark /\ t - b.creationTime >= SPARK_LIFESPAN)
    \/ (~b.isPlayer /\ ~b.isSun /\ ~b.isGravitationalCenter /\ ~b.isSpark
        /\ b.mass < MIN_BODY_MASS)

\* C24: at the start of every tick, before gravity, exactly the expired
\* bodies are removed: sparks of age >= SPARK_LIFESPAN and bodies that are no
\* player, sun, center or spark with mass < MIN_BODY_MASS; with ticks running
\* every spark is eventually removed
C24_CleanupRemovesExpired ==
    /\ [][(pc = "idle" /\ pc' = "gravity") =>
            celestialBodies' = SelectSeq(celestialBodies, LAMBDA b : ~Expired(b, now))]_vars
    /\ <>[](Sparks = {})

\* the cleanup of a tick has removed the sparks that the collision pass of
\* the tick before left in the registry
C24_Witness ==
    /\ pc = "gravity"
    /\ Sparks = {}
    /\ ~pairLog.reset
    /\ \E k \in 1..Len(pairLog.end) : pairLog.end[k].isSpark

\* G times the effective source mass of the force law, in the terms of
\* OrbitMu: SUN_GRAVITATIONAL_MASS * (1 - b) + player.mass *
\* GRAVITY_CROSSOVER_MULTIPLIER * b around the sun, player.mass *
\* GRAVITY_CROSSOVER_MULTIPLIER around the player as gravitational center,
\* the center's raw mass otherwise
ForceLawMu(center) ==
    IF center.isSun
    THEN [grav |-> SunGravMass(gravityBlendFactor)
                   + (IF Players # {}
                      THEN MulDiv(PlayerGravMass(Player.mass), gravityBlendFactor, One)
                      ELSE 0),
          raw |-> 0]
    ELSE IF center.isPlayer /\ center.isGravitationalCenter
    THEN [grav |-> PlayerGravMass(center.mass), raw |-> 0]
    ELSE [grav |-> 0, raw |-> center.mass]

\* C25: the gravitational parameter calculateOrbitParameters uses for a body
\* equals G times the effective source mass of the force law for the state
C25_OrbitMuIsForceMass ==
    pc = "finish" =>
        \A i \in OrbitBodies(celestialBodies, gameWon) :
            LET center == celestialBodies[EffectiveCenter(celestialBodies, gameWon)]
            IN  OrbitMu(celestialBodies[i], center, celestialBodies, gravityBlendFactor)
                   = ForceLawMu(center)

\* C26: while gameWon is false the sun's mass field equals the remaining sun
\* game mass at every tick boundary, after any collisions, absorption steps
\* and resets
C26_SunMassIsGameMass ==
    (pc = "idle" /\ ~gameWon /\ Suns # {}) => Sun.mass = sunCurrentGameMass

\* C27: the registry holds exactly one player and at most one sun, and the
\* player's mass is at least MIN_PLAYER_MASS, at every tick boundary and at
\* every stage of a tick but one: after a collision has taken the player
\* below the floor, when the reset is the next step of the same tick
C27_OnePlayerAboveFloor ==
    /\ Cardinality(Players) = 1
    /\ Cardinality(Suns) <= 1
    /\ pc # "reset" => Player.mass >= MIN_PLAYER_MASS
    /\ (pc = "collisions" /\ ~playerNeedsReset) => Player.mass >= MIN_PLAYER_MASS

\* a collision has taken the player below the floor and the reset is next
C27_Witness ==
    /\ pc = "reset"
    /\ Players # {}
    /\ Player.mass < MIN_PLAYER_MASS
    /\ pairLog.reset

\* C28: the won state is absorbing: in every state with gameWon true the
\* reset flag is down and no reset is pending, whatever tick stage or eject
\* request led to it, and no step takes gameWon back to false
C28_WonIsAbsorbing ==
    /\ [](gameWon => (~playerNeedsReset /\ pc # "reset"))
    /\ [][gameWon => gameWon']_vars

\* after the win the player has ejected mass, and the tick that follows has
\* gone through gravity, integration and collisions
C28_Witness ==
    /\ gameWon
    /\ pc = "absorption"
    /\ lastClickTime = now
    /\ Ordinary # {}
    /\ ~playerNeedsReset

\* C29: no step other than resetPlayer raises sunCurrentGameMass or lowers
\* sunAbsorptionProgress, and at every tick boundary sunCurrentGameMass is
\* at least 2% of SUN_GAME_MASS while gameWon is false and exactly 0 once
\* gameWon is true
C29_GameMassMonotone ==
    /\ [][pc # "reset" =>
            /\ sunCurrentGameMass' # NaN
            /\ sunAbsorptionProgress' # NaN
            /\ sunCurrentGameMass' <= sunCurrentGameMass
            /\ sunAbsorptionProgress' >= sunAbsorptionProgress]_vars
    /\ [](pc = "idle" =>
            IF gameWon THEN sunCurrentGameMass = 0
            ELSE sunCurrentGameMass * 100 >= SUN_GAME_MASS * WIN_PERCENT)

\* a tick has ended after checkSunAbsorption took a first part of the full
\* sun: more than three quarters of the game mass are left
C29_Witness ==
    /\ pc = "idle" /\ ~gameWon /\ ticks > 0
    /\ sunCurrentGameMass < SUN_GAME_MASS
    /\ sunCurrentGameMass * 4 > SUN_GAME_MASS * 3
    /\ sunAbsorptionProgress > 0

\* the lowest proximity (in thousandths) the player of C30 keeps
MinProximity == 100

\* the player is eligible and inside the absorption range, with a proximity
\* of at least MinProximity, and no reset is requested
Feeding ==
    /\ ~playerNeedsReset
    /\ Players # {} /\ Suns # {}
    /\ CanAbsorb(Player.mass)
    /\ Proximity(Dist10(Player, Sun), TouchDist(Player, Sun, sunCurrentGameMass))
         >= MinProximity

\* C30: if from some tick on checkSunAbsorption finds the player eligible and
\* inside the absorption range with a proximity bounded away from 0 in every
\* tick, and no reset is requested, then gameWon eventually becomes true
C30_FeedingWins ==
    <>[](gameWon \/ (pc \in {"absorption", "finish", "idle"} => Feeding)) => <>gameWon

\* the game has been won in a session that began with the full sun
C30_Witness ==
    /\ gameWon /\ pc = "idle"
    /\ Players # {}
    /\ Player.mass = 8000000 + SUN_GAME_MASS

====
